---- MODULE Spec2Model ----
(***************************************************************************)
(* A state-machine model of the Resonix memory / cognition core:           *)
(*   SemanticMemory      src/src/resonix/memory/semantic-memory.ts         *)
(*   ProgramMemory       src/src/resonix/memory/program-memory.ts          *)
(*   DeviationCorrection src/unnamed/part_021                              *)
(*   PathPlanner         src/src/resonix/learning/path-planner.ts          *)
(*   WorkingMemory       src/src/resonix/memory/working-memory.ts          *)
(*   EpisodicMemory      src/src/resonix/memory/working-memory.ts          *)
(*   SelfPerception      src/unnamed/part_021                              *)
(*   CognitionEngine     src/src/resonix/index.ts                          *)
(*   LearningEngine      src/src/resonix/learning-engine.ts                *)
(*                                                                         *)
(* Numbers the source keeps as floating point are kept exact here:         *)
(* retention weights and prune thresholds are scaled by 100, success rates *)
(* are reduced fractions <<numerator, denominator>>.                       *)
(***************************************************************************)
EXTENDS Integers, Sequences, FiniteSets, TLC

VARIABLES
    now,               \* the value Date.now() returns
    maxVersions,       \* SemanticMemory.maxVersions
    enableVersioning,  \* SemanticMemory.enableVersioning
    cache,             \* SemanticMemory.cache: card id -> KnowledgeCard
    versionFiles,      \* the files {id}_v{version}.json: <<id, version>> -> KnowledgeCard
    strategies,        \* ProgramMemory.strategies, in the Map's insertion order
    memoryCache,       \* EpisodicMemory.memoryCache: the events logged, oldest first
    activeDeviations,  \* DeviationCorrection.activeDeviations: id -> DeviationRecord
    path,              \* the LearningPath handed to PathPlanner.executePath
    exec,              \* where executePath stands: its position in the loop over the steps
    items,             \* WorkingMemory.items: item id -> WorkingMemoryItem
    learningProgress,  \* WorkingMemory.learningProgress: demand id -> LearningProgress
    profile,           \* SelfPerception.profile
    dayFiles,          \* the files {date}.jsonl of the episodic storage directory
    archive,           \* the files archive/{date}.jsonl
    tasks,             \* the pending EpisodicMemory.log / cleanup calls: where each stands
    loading,           \* where EpisodicMemory.loadRecentEvents stands
    storeCalls,        \* the SemanticMemory.store calls whose promise is not yet consumed
    masteryCalls,      \* the pending SelfPerception.updateMastery calls: where each stands
    engine,            \* ResonixCognitionEngine: running, intervals, the pending start calls
    flows,             \* the pending performAutonomousLearning / processUserFeedback calls
    learner,           \* AutonomousLearningEngine: isLearning, learningQueue, the learn runs
    ret                \* the last call and what it returned

vars == <<now, maxVersions, enableVersioning, cache, versionFiles, strategies, memoryCache,
          activeDeviations, path, exec, items, learningProgress, profile, dayFiles, archive,
          tasks, loading, storeCalls, masteryCalls, engine, flows, learner, ret>>

\* What the calls of one component leave alone.
semConfig == <<maxVersions, enableVersioning>>
working == <<items, learningProgress>>
episodic == <<dayFiles, archive, tasks, loading>>
orchestrator == <<engine, flows, learner>>
calls == <<storeCalls, masteryCalls, orchestrator>>
rest == <<items, learningProgress, profile, dayFiles, archive, tasks, loading, calls>>
notSemantic == <<strategies, memoryCache, activeDeviations, path, exec, rest>>
notProgram == <<maxVersions, enableVersioning, cache, versionFiles, memoryCache, activeDeviations,
                path, exec, rest>>
notDeviation == <<path, exec, rest>>
notSemanticCalls == <<strategies, memoryCache, activeDeviations, path, exec>>

----------------------------------------------------------------------------
(* Bounds of the model *)

\* Date.now() at construction, and how many distinct values it takes afterwards.
StartTime == 6
MaxTime == 2
MaxVersion == 4
MaxCfgVersions == 2
MaxUsage == 2
MaxEvents == 3
MaxClock == 3
MaxItems == 2
MaxSteps == 2
MaxLearns == 3

----------------------------------------------------------------------------
(* Helpers *)

NoProfile == [generatedAt |-> 0, gaps |-> {}, outdated |-> {}, strengths |-> {}, null |-> TRUE]

\* new ResonixCognitionEngine(): not running, no interval timer, no start pending.
NoEngine == [running |-> FALSE, intervals |-> <<>>, starts |-> <<>>,
             enableAutonomousLearning |-> TRUE]

\* new AutonomousLearningEngine(): idle, with an empty queue.
\* `runs` holds the learn calls in their pipeline (run number -> topic and
\* awaited call), `started` the topics whose pipeline has started, in order.
NoLearner == [isLearning |-> FALSE, learningQueue |-> <<>>, knowledgeBase |-> <<>>,
              runs |-> <<>>, started |-> <<>>, calls |-> 0]

NotLoading == [pc |-> "none", i |-> 0, start |-> 0, pending |-> <<>>, initialized |-> FALSE]

\* The state of the components a specification does not construct.
InitRest ==
    /\ items = <<>>
    /\ learningProgress = <<>>
    /\ profile = NoProfile
    /\ dayFiles = <<>>
    /\ archive = <<>>
    /\ tasks = <<>>
    /\ loading = NotLoading
    /\ storeCalls = <<>>
    /\ masteryCalls = <<>>
    /\ engine = NoEngine
    /\ flows = <<>>
    /\ learner = NoLearner

Put(f, k, v) == [x \in (DOMAIN f) \cup {k} |-> IF x = k THEN v ELSE f[x]]

Remove(f, ks) == [x \in (DOMAIN f) \ ks |-> f[x]]

Min(a, b) == IF a <= b THEN a ELSE b

Max(a, b) == IF a >= b THEN a ELSE b

\* Array.prototype.slice(-n): a start of -n counts from the end, but -0 is 0,
\* so slice(-0) is slice(0), the whole array.
SliceLast(s, n) ==
    IF n = 0 THEN s
    ELSE IF n >= Len(s) THEN s
    ELSE SubSeq(s, Len(s) - n + 1, Len(s))

\* {...a, ...b}: the fields of b override those of a.
Spread(a, b) ==
    [f \in (DOMAIN a) \cup (DOMAIN b) |-> IF f \in DOMAIN b THEN b[f] ELSE a[f]]

\* No path has been generated; executePath is not running.
NoPath == [topic |-> "", steps |-> <<>>, status |-> "none"]

Idle == [pc |-> "idle", idx |-> 0, broke |-> FALSE, ran |-> {}]

----------------------------------------------------------------------------
(* SemanticMemory *)

CardIds == {"k1", "k2"}

\* The ids and arguments used where every version file is kept in the state.
VersionedIds == {"k1"}

VersionedInputs ==
    { [domain |-> "general", mastery_score |-> 8, timeliness |-> "outdated", usageCount |-> 0],
      [domain |-> "ai",      mastery_score |-> 0, timeliness |-> "latest",   usageCount |-> 0] }

\* constructor: config?.maxVersions ?? 5
DefaultMaxVersions == 5

\* The `knowledge` arguments of store (title, keywords, core_content, sources
\* and related_knowledge are carried along unread and left out).
StoreInputs ==
    { [domain |-> "general", mastery_score |-> 8, timeliness |-> "outdated", usageCount |-> 0],
      [domain |-> "ai",      mastery_score |-> 8, timeliness |-> "outdated", usageCount |-> 0],
      [domain |-> "ai",      mastery_score |-> 0, timeliness |-> "latest",   usageCount |-> 0],
      [domain |-> "ai",      mastery_score |-> 0, timeliness |-> "outdated", usageCount |-> 40] }

\* The `updates` arguments of update: Partial<KnowledgeCard>.
UpdatePatches ==
    { [mastery_score |-> 9],
      [timeliness |-> "outdated"] }

\* prune's thresholds, times 100: the default 0.1; 0.3, the retention weight
\* of a card used 30 times or more with nothing else to its credit; and 6.0,
\* which is above every retention weight a card with mastery_score <= 10 can
\* have (5.5).
Thresholds == {10, 30, 600}

\* store stamping create_time anew on every call.
StoredCardStampedNow(id, knowledge) ==
    LET has == id \in DOMAIN cache
        pv == IF has THEN Append(cache[id].previous_versions, cache[id].version) ELSE <<>>
    IN  Spread(Spread(knowledge, [id |-> id]),
               [ create_time |-> now,
                 update_time |-> now,
                 version |-> IF has THEN cache[id].version + 1 ELSE 1,
                 previous_versions |->
                     IF Len(pv) > maxVersions THEN SliceLast(pv, maxVersions) ELSE pv ])

\* store building the card without counting the version up.
StoredCardSameVersion(id, knowledge) ==
    LET has == id \in DOMAIN cache
    IN  Spread(Spread(knowledge, [id |-> id]),
               [ create_time |-> now,
                 update_time |-> now,
                 version |-> IF has THEN cache[id].version ELSE 1,
                 previous_versions |-> <<>> ])

\* The card store(knowledge) builds for the id.
StoredCard(id, knowledge) ==
    LET has == id \in DOMAIN cache
        pv == IF has THEN Append(cache[id].previous_versions, cache[id].version) ELSE <<>>
    IN  Spread(Spread(knowledge, [id |-> id]),
               [ create_time |-> IF has /\ cache[id].create_time # 0
                                 THEN cache[id].create_time ELSE now,
                 update_time |-> now,
                 version |-> IF has THEN cache[id].version + 1 ELSE 1,
                 previous_versions |->
                     IF Len(pv) > maxVersions THEN SliceLast(pv, maxVersions) ELSE pv ])

\* The value of an optional property that is not set.
Undefined == "undefined"

\* JSON.stringify(card): a property whose value is undefined is left out.
\* Of a KnowledgeCard's properties only metadata may be undefined
\* (previous_versions is always set by store and update).
Stringify(card) ==
    [ f \in { g \in DOMAIN card : ~(g = "metadata" /\ card[g] = Undefined) } |-> card[f] ]

\* JSON.parse(text): the properties the text spells out.
Parse(text) == text

\* store without the write of the version file.
FilesWithoutVersionWrite(card) == versionFiles

\* The version files after store has built `card`.
FilesAfterStore(card) ==
    IF enableVersioning
    THEN Put(versionFiles, <<card.id, card.version>>, Stringify(card))
    ELSE versionFiles

SemStore(id, knowledge) ==
    LET card == StoredCard(id, knowledge)
    IN  /\ card.version <= MaxVersion
        /\ cache' = Put(cache, id, card)
        /\ versionFiles' = FilesAfterStore(card)
        /\ ret' = [op |-> "store", id |-> id, version |-> card.version]
        /\ UNCHANGED <<now, rest, semConfig, notSemantic>>

\* The card update(id, updates) puts in the cache in place of `existing`.
UpdatedCard(existing, updates) ==
    [ Spread(existing, updates) EXCEPT
        !.update_time = now,
        !.version = existing.version + 1,
        !.previous_versions =
            SliceLast(Append(existing.previous_versions, existing.version), maxVersions) ]

\* The version files after update(id, ...): the card being replaced is saved.
FilesAfterUpdate(id) ==
    IF enableVersioning
    THEN Put(versionFiles, <<id, cache[id].version>>, Stringify(cache[id]))
    ELSE versionFiles

SemUpdate(id, updates) ==
    IF id \notin DOMAIN cache
    THEN /\ ret' = [op |-> "update", id |-> id, version |-> 0]
         /\ UNCHANGED <<now, rest, semConfig, cache, versionFiles, notSemantic>>
    ELSE /\ cache[id].version < MaxVersion
         /\ versionFiles' = FilesAfterUpdate(id)
         /\ cache' = Put(cache, id, UpdatedCard(cache[id], updates))
         /\ ret' = [op |-> "update", id |-> id, version |-> cache[id].version + 1]
         /\ UNCHANGED <<now, rest, semConfig, notSemantic>>

\* getVersion(id, version) returns a card exactly when the version file exists.
HasVersion(id, version) == <<id, version>> \in DOMAIN versionFiles

getVersion(id, version) == Parse(versionFiles[<<id, version>>])

SemDelete(id) ==
    /\ id \in DOMAIN cache
    /\ cache' = Remove(cache, {id})
    /\ ret' = [op |-> "delete", id |-> id]
    /\ UNCHANGED <<now, rest, semConfig, versionFiles, notSemantic>>

\* calculateRetentionWeight, times 100.
calculateRetentionWeight(card) ==
    LET masteryWeight == card.mastery_score * 50
        timelinessWeight == IF card.timeliness = "latest" THEN 20
                            ELSE IF card.timeliness = "valid" THEN 10 ELSE 0
        usageWeight == Min(30, card.usageCount)
    IN  masteryWeight + timelinessWeight + usageWeight

PrunedByWeightAlone(threshold) ==
    { id \in DOMAIN cache : calculateRetentionWeight(cache[id]) < threshold }

\* prune deleting the cards at or below the threshold.
PrunedAtThreshold(threshold) ==
    { id \in DOMAIN cache :
        /\ ~(cache[id].mastery_score >= 8 /\ cache[id].domain # "general")
        /\ calculateRetentionWeight(cache[id]) <= threshold }

\* The cards prune(threshold) deletes.
Pruned(threshold) ==
    { id \in DOMAIN cache :
        /\ ~(cache[id].mastery_score >= 8 /\ cache[id].domain # "general")
        /\ calculateRetentionWeight(cache[id]) < threshold }

SemPrune(threshold) ==
    /\ cache' = Remove(cache, Pruned(threshold))
    /\ ret' = [op |-> "prune", threshold |-> threshold, pruned |-> Pruned(threshold)]
    /\ UNCHANGED <<now, rest, semConfig, versionFiles, notSemantic>>

Tick ==
    /\ now < StartTime + MaxTime - 1
    /\ now' = now + 1
    /\ UNCHANGED <<rest, semConfig, cache, versionFiles, strategies, memoryCache,
                   activeDeviations, path, exec, ret>>

\* A SemanticMemory constructed over an empty storage directory (loadIndex
\* finds no index.json), with versioning on and any small maxVersions.
InitSemantic ==
    /\ now = StartTime
    /\ maxVersions \in 0..MaxCfgVersions
    /\ enableVersioning = TRUE
    /\ cache = <<>>
    /\ versionFiles = <<>>
    /\ strategies = <<>>
    /\ memoryCache = <<>>
    /\ activeDeviations = <<>>
    /\ path = NoPath
    /\ exec = Idle
    /\ InitRest
    /\ ret = [op |-> "new"]

NextSemantic ==
    \/ \E id \in VersionedIds, knowledge \in VersionedInputs : SemStore(id, knowledge)
    \/ \E id \in VersionedIds, updates \in UpdatePatches : SemUpdate(id, updates)
    \/ \E id \in VersionedIds : SemDelete(id)
    \/ Tick

SpecSemantic == InitSemantic /\ [][NextSemantic]_vars

\* The `knowledge` arguments of store with the optional metadata property:
\* left out, or present with the value undefined.
RoundTripInputs ==
    { [domain |-> "general", mastery_score |-> 8, timeliness |-> "outdated", usageCount |-> 0],
      [domain |-> "ai", mastery_score |-> 8, timeliness |-> "latest", usageCount |-> 0,
       metadata |-> Undefined] }

\* A SemanticMemory constructed with the default configuration over an empty
\* storage directory: versioning on, maxVersions 5.  The calls are made within
\* one millisecond, so that Date.now() is the same in each.
InitRoundTrip ==
    /\ now = StartTime
    /\ maxVersions = DefaultMaxVersions
    /\ enableVersioning = TRUE
    /\ cache = <<>>
    /\ versionFiles = <<>>
    /\ strategies = <<>>
    /\ memoryCache = <<>>
    /\ activeDeviations = <<>>
    /\ path = NoPath
    /\ exec = Idle
    /\ InitRest
    /\ ret = [op |-> "new"]

NextRoundTrip ==
    \/ \E id \in VersionedIds, knowledge \in RoundTripInputs : SemStore(id, knowledge)
    \/ \E id \in VersionedIds, updates \in UpdatePatches : SemUpdate(id, updates)
    \/ \E id \in VersionedIds : SemDelete(id)

SpecRoundTrip == InitRoundTrip /\ [][NextRoundTrip]_vars

\* The callers of store whose calls may overlap: each calls store and picks the
\* promise's value up in a later turn of the event loop.
Callers == {"c1", "c2"}

CallIds == {"k1", "k2"}

\* store's body holds no await (saveIndex and the version file are written
\* with writeFileSync), so the call runs from the read of the existing card
\* to the writes in one turn; what stays pending is the returned promise.
\* `existing` is the version of the card the call read, 0 for none.
StoreCall(c, id, knowledge) ==
    LET card == StoredCard(id, knowledge)
    IN  /\ c \notin DOMAIN storeCalls
        /\ card.version <= MaxVersion
        /\ cache' = Put(cache, id, card)
        /\ versionFiles' = FilesAfterStore(card)
        /\ storeCalls' = Put(storeCalls, c,
               [ id |-> id,
                 existing |-> IF id \in DOMAIN cache THEN cache[id].version ELSE 0,
                 version |-> card.version ])
        /\ UNCHANGED <<now, working, profile, episodic, masteryCalls, orchestrator, semConfig,
                       notSemanticCalls, ret>>

\* The caller's continuation: the promise of its store call is fulfilled.
StoreSettle(c) ==
    /\ c \in DOMAIN storeCalls
    /\ storeCalls' = Remove(storeCalls, {c})
    /\ ret' = [op |-> "store", id |-> storeCalls[c].id, version |-> storeCalls[c].version]
    /\ UNCHANGED <<now, working, profile, episodic, masteryCalls, orchestrator, semConfig, cache,
                   versionFiles, notSemanticCalls>>

InitCalls == InitRoundTrip

NextCalls ==
    \/ \E c \in Callers, id \in CallIds, knowledge \in VersionedInputs :
           StoreCall(c, id, knowledge)
    \/ \E c \in Callers : StoreSettle(c)

SpecCalls == InitCalls /\ [][NextCalls]_vars

\* A SemanticMemory constructed with { enableVersioning: false } and the
\* default maxVersions, over an empty storage directory.
InitPrune ==
    /\ now = StartTime
    /\ maxVersions = DefaultMaxVersions
    /\ enableVersioning = FALSE
    /\ cache = <<>>
    /\ versionFiles = <<>>
    /\ strategies = <<>>
    /\ memoryCache = <<>>
    /\ activeDeviations = <<>>
    /\ path = NoPath
    /\ exec = Idle
    /\ InitRest
    /\ ret = [op |-> "new"]

NextPrune ==
    \/ \E id \in CardIds, knowledge \in StoreInputs : SemStore(id, knowledge)
    \/ \E id \in CardIds, updates \in UpdatePatches : SemUpdate(id, updates)
    \/ \E id \in CardIds : SemDelete(id)
    \/ \E threshold \in Thresholds : SemPrune(threshold)
    \/ Tick

SpecPrune == InitPrune /\ [][NextPrune]_vars

----------------------------------------------------------------------------
(* ProgramMemory *)

\* A success rate is the reduced fraction <<numerator, denominator>>.
RECURSIVE GCD(_, _)
GCD(a, b) == IF b = 0 THEN a ELSE GCD(b, a % b)

Rate(n, d) == LET g == GCD(n, d) IN <<n \div g, d \div g>>

RateLess(a, b) == a[1] * b[2] < b[1] * a[2]

\* The `content` arguments of storeStrategy, as the set of keys they carry.
Contents == { {"endpoint"}, {"actions"} }

StrategyTypes == {"api", "browser", "extraction", "evaluation"}

inferStrategyType(content) ==
    IF "apiParams" \in content \/ "endpoint" \in content THEN "api"
    ELSE IF "actions" \in content \/ "urlPatterns" \in content THEN "browser"
    ELSE IF "extractionRule" \in content \/ "pattern" \in content THEN "extraction"
    ELSE "evaluation"

\* Array.from(strats.values()).find(s => s.name === name): the index of the
\* first strategy with that name, 0 when there is none.
FindByName(strats, name) ==
    IF \E i \in 1..Len(strats) : strats[i].name = name
    THEN CHOOSE i \in 1..Len(strats) :
            /\ strats[i].name = name
            /\ \A j \in 1..(i - 1) : strats[j].name # name
    ELSE 0

\* Map.set(id, value): an existing key keeps its place, a new key goes last.
MapSet(strats, value) ==
    IF \E i \in 1..Len(strats) : strats[i].id = value.id
    THEN [i \in 1..Len(strats) |-> IF strats[i].id = value.id THEN value ELSE strats[i]]
    ELSE Append(strats, value)

\* The strategy storeStrategy(name, content) builds at time t.
NewStrategy(strats, name, content, t) ==
    LET i == FindByName(strats, name)
    IN  [ id |-> IF i # 0 THEN strats[i].id ELSE t,
          name |-> name,
          type |-> inferStrategyType(content),
          content |-> content,
          successRate |-> IF i # 0 /\ strats[i].successRate[1] # 0
                          THEN strats[i].successRate ELSE Rate(1, 2),
          usageCount |-> IF i # 0 THEN strats[i].usageCount ELSE 0,
          lastUsed |-> IF i # 0 /\ strats[i].lastUsed # 0 THEN strats[i].lastUsed ELSE t,
          createdAt |-> IF i # 0 /\ strats[i].createdAt # 0 THEN strats[i].createdAt ELSE t,
          updatedAt |-> t,
          isOptimal |-> FALSE ]

StoreStrategy(name, content) ==
    /\ strategies' = MapSet(strategies, NewStrategy(strategies, name, content, now))
    /\ ret' = [op |-> "storeStrategy", name |-> name]
    /\ UNCHANGED <<now, notProgram>>

\* updateStrategyEffect averaging the old rate and the outcome, whatever the
\* number of uses.
WithEffectUnweighted(strats, name, success, t) ==
    LET i == FindByName(strats, name)
    IN  IF i = 0 THEN strats
        ELSE LET st == strats[i]
                 successDelta == IF success THEN 1 ELSE 0
             IN  [strats EXCEPT ![i] =
                     [st EXCEPT !.successRate =
                                    Rate(st.successRate[1] + successDelta * st.successRate[2],
                                         2 * st.successRate[2]),
                                !.usageCount = st.usageCount + 1,
                                !.lastUsed = t,
                                !.updatedAt = t]]

\* The strategies after updateStrategyEffect(name, success) at time t.
WithEffect(strats, name, success, t) ==
    LET i == FindByName(strats, name)
    IN  IF i = 0 THEN strats
        ELSE LET st == strats[i]
                 newUsageCount == st.usageCount + 1
                 successDelta == IF success THEN 1 ELSE 0
                 newSuccessRate ==
                     Rate(st.successRate[1] * st.usageCount + successDelta * st.successRate[2],
                          st.successRate[2] * newUsageCount)
             IN  [strats EXCEPT ![i] = [st EXCEPT !.successRate = newSuccessRate,
                                                  !.usageCount = newUsageCount,
                                                  !.lastUsed = t,
                                                  !.updatedAt = t]]

\* updateStrategyEffect(name, success), for strategies used fewer than `bound`
\* times.
Effect(name, success, bound) ==
    /\ LET i == FindByName(strategies, name)
       IN  i # 0 => strategies[i].usageCount < bound
    /\ strategies' = WithEffect(strategies, name, success, now)
    /\ ret' = [op |-> "updateStrategyEffect", name |-> name]
    /\ UNCHANGED <<now, notProgram>>

UpdateStrategyEffect(name, success) == Effect(name, success, MaxUsage)

KeepOptimalFlags(strats, type) == strats

\* markOptimal's loop: the flag is cleared on every strategy of the type.
ClearOptimal(strats, type) ==
    [i \in 1..Len(strats) |->
        IF strats[i].type = type /\ strats[i].isOptimal
        THEN [strats[i] EXCEPT !.isOptimal = FALSE]
        ELSE strats[i]]

MarkOptimal(name) ==
    LET i == FindByName(strategies, name)
    IN  IF i = 0
        THEN /\ ret' = [op |-> "markOptimal", name |-> name, found |-> FALSE, cleared |-> {}]
             /\ UNCHANGED <<now, strategies, notProgram>>
        ELSE LET cleared == ClearOptimal(strategies, strategies[i].type)
             IN  /\ strategies' = [cleared EXCEPT ![i].isOptimal = TRUE]
                 /\ ret' = [op |-> "markOptimal", name |-> name, found |-> TRUE,
                            cleared |-> { strategies[j].name : j \in
                                            { k \in 1..Len(strategies) :
                                                /\ k # i
                                                /\ strategies[k].type = strategies[i].type
                                                /\ strategies[k].isOptimal } }]
                 /\ UNCHANGED <<now, notProgram>>

\* strategies.sort((a, b) => b.successRate - a.successRate): a stable sort,
\* highest rate first.
RECURSIVE InsertByRate(_, _)
InsertByRate(sorted, st) ==
    IF sorted = <<>> THEN <<st>>
    ELSE IF RateLess(Head(sorted).successRate, st.successRate)
         THEN <<st>> \o sorted
         ELSE <<Head(sorted)>> \o InsertByRate(Tail(sorted), st)

RECURSIVE SortBySuccessRate(_)
SortBySuccessRate(group) ==
    IF group = <<>> THEN <<>>
    ELSE InsertByRate(SortBySuccessRate(SubSeq(group, 1, Len(group) - 1)), group[Len(group)])

\* Math.max(1, Math.ceil(length * 0.2)); the floating-point product rounds up
\* to ceil(length / 5) for every length up to 10.
OptimalCount(length) == Max(1, (length + 4) \div 5)

\* The strategies of one type, in the Map's order: byType.get(type).
Group(strats, type) == SelectSeq(strats, LAMBDA st : st.type = type)

\* shouldBeOptimal without the test of the success rate.
InTopShare(sorted, st) ==
    LET i == CHOOSE k \in 1..Len(sorted) : sorted[k].id = st.id
    IN  (i - 1) < OptimalCount(Len(sorted))

\* i < optimalCount && strategy.successRate > 0.3, for the strategy st of the
\* sorted group of its type.
ShouldBeOptimal(sorted, st) ==
    LET i == CHOOSE k \in 1..Len(sorted) : sorted[k].id = st.id
    IN  (i - 1) < OptimalCount(Len(sorted)) /\ RateLess(Rate(3, 10), st.successRate)

\* strategy.successRate < 0.1 && strategy.usageCount > 10
TooWeak(st) == RateLess(st.successRate, Rate(1, 10)) /\ st.usageCount > 10

IterateStrategies ==
    LET ids == 1..Len(strategies)
        byType == [type \in StrategyTypes |-> SortBySuccessRate(Group(strategies, type))]
        flagged == [i \in ids |->
                      [strategies[i] EXCEPT
                         !.isOptimal = ShouldBeOptimal(byType[strategies[i].type],
                                                       strategies[i])]]
        promoted == { strategies[i].name : i \in
                        { k \in ids : flagged[k].isOptimal /\ ~strategies[k].isOptimal } }
        demoted == { strategies[i].name : i \in
                        { k \in ids : ~flagged[k].isOptimal /\ strategies[k].isOptimal } }
        removed == { strategies[i].name : i \in { k \in ids : TooWeak(strategies[k]) } }
    IN  /\ strategies' = SelectSeq(flagged, LAMBDA st : ~TooWeak(st))
        /\ ret' = [op |-> "iterateStrategies", promoted |-> promoted,
                   demoted |-> demoted, removed |-> removed]
        /\ UNCHANGED <<now, notProgram>>

\* A strategy file written by an earlier run: storeStrategy(name, {endpoint})
\* at time t, then `failures` failed updateStrategyEffect calls.
Stored(name, t, failures) ==
    [ id |-> t, name |-> name, type |-> "api", content |-> {"endpoint"},
      successRate |-> IF failures = 0 THEN Rate(1, 2) ELSE Rate(0, 1),
      usageCount |-> failures, lastUsed |-> t, createdAt |-> t, updatedAt |-> t,
      isOptimal |-> FALSE ]

\* The strategies directory loadStrategies finds: empty, or the five api
\* strategies of an earlier run, the last of which has failed 11 times.
StrategyDirs ==
    { <<>>,
      << Stored("a1", 1, 0), Stored("a2", 2, 0), Stored("a3", 3, 0),
         Stored("a4", 4, 0), Stored("a5", 5, 11) >> }

StrategyNames == {"a1", "a2", "s1"}

StoreNames == {"a1", "s1"}

EffectNames == {"s1"}

InitProgram ==
    /\ now = StartTime
    /\ maxVersions = DefaultMaxVersions
    /\ enableVersioning = TRUE
    /\ cache = <<>>
    /\ versionFiles = <<>>
    /\ strategies \in StrategyDirs
    /\ memoryCache = <<>>
    /\ activeDeviations = <<>>
    /\ path = NoPath
    /\ exec = Idle
    /\ InitRest
    /\ ret = [op |-> "new"]

NextProgram ==
    \/ \E name \in StoreNames, content \in Contents : StoreStrategy(name, content)
    \/ \E name \in EffectNames, success \in BOOLEAN : UpdateStrategyEffect(name, success)
    \/ \E name \in StrategyNames : MarkOptimal(name)
    \/ IterateStrategies
    \/ Tick

SpecProgram == InitProgram /\ [][NextProgram]_vars

\* A ProgramMemory constructed over an empty strategies directory, whose
\* strategies are stored and then used up to MaxEffects times each.
MaxEffects == 3

EffectedNames == {"s1", "s2"}

InitEffect ==
    /\ InitProgram
    /\ strategies = <<>>

NextEffect ==
    \/ \E name \in EffectedNames, content \in Contents : StoreStrategy(name, content)
    \/ \E name \in EffectedNames, success \in BOOLEAN : Effect(name, success, MaxEffects)
    \/ Tick

SpecEffect == InitEffect /\ [][NextEffect]_vars

----------------------------------------------------------------------------
(* EpisodicMemory.log, as DeviationCorrection uses it *)

\* log(event): the event is pushed on memoryCache (and appended to the day
\* file; the cleanup it starts above 30 * maxEventsPerDay cached events is
\* beyond MaxEvents).
Logged(events, eventType) == Append(events, [event_type |-> eventType, timestamp |-> now])

----------------------------------------------------------------------------
(* DeviationCorrection *)

\* A feedback text is the set of the keywords it contains, in pinyin:
\* cuowu (wrong), budui (incorrect), youwenti (has a problem), yilou (omitted),
\* buquan (incomplete), shao (few), guoshi (outdated), lao (old), jia (fake),
\* yanzhong (severe), zhongda (major), wanquancuowu (completely wrong),
\* qingwei (slight), youdian (a bit), butai (not very), xiexie (thanks).
Feedbacks == { {"cuowu"}, {"xiexie"} }

Matches(feedback, keywords) == feedback \cap keywords # {}

isError(feedback) == Matches(feedback, {"cuowu", "budui", "youwenti", "yilou", "wanquancuowu"})

\* The second pattern of the source is an unterminated regular expression; it
\* is read as the two keywords it lists.
classifyDeviation(feedback) ==
    IF Matches(feedback, {"yilou", "buquan", "shao"}) THEN "completeness"
    ELSE IF Matches(feedback, {"guoshi", "lao"}) THEN "timeliness"
    ELSE IF Matches(feedback, {"cuowu", "budui", "jia", "wanquancuowu"}) THEN "factual"
    ELSE "accuracy"

assessSeverity(feedback) ==
    IF Matches(feedback, {"yanzhong", "zhongda", "wanquancuowu"}) THEN "high"
    ELSE IF Matches(feedback, {"qingwei", "youdian", "butai"}) THEN "low"
    ELSE "medium"

\* relatedKnowledgeId || this.extractRelatedKnowledge(feedback); no feedback
\* of Feedbacks names a card, so the extraction yields 'unknown'.
RelatedIds == {"k1", ""}

DetectFromUserFeedback(feedback, relatedKnowledgeId) ==
    IF ~isError(feedback)
    THEN /\ ret' = [op |-> "detectFromUserFeedback", id |-> ""]
         /\ UNCHANGED <<now, rest, semConfig, cache, versionFiles, strategies, memoryCache,
                        activeDeviations, notDeviation>>
    ELSE LET deviation ==
                 [ id |-> "dev_" \o ToString(now),
                   knowledgeId |-> IF relatedKnowledgeId # "" THEN relatedKnowledgeId
                                   ELSE "unknown",
                   type |-> classifyDeviation(feedback),
                   severity |-> assessSeverity(feedback),
                   detectedAt |-> now,
                   status |-> "detected" ]
         IN  /\ Len(memoryCache) < MaxEvents
             /\ activeDeviations' = Put(activeDeviations, deviation.id, deviation)
             /\ memoryCache' = Logged(memoryCache, "deviation_detected")
             /\ ret' = [op |-> "detectFromUserFeedback", id |-> deviation.id]
             /\ UNCHANGED <<now, rest, semConfig, cache, versionFiles, strategies, notDeviation>>

TriggerCorrectionLearning(deviationId) ==
    /\ deviationId \in DOMAIN activeDeviations
    /\ Len(memoryCache) < MaxEvents
    /\ activeDeviations' = [activeDeviations EXCEPT ![deviationId].status = "verifying"]
    /\ memoryCache' = Logged(memoryCache, "correction_learning_triggered")
    /\ ret' = [op |-> "triggerCorrectionLearning", id |-> deviationId]
    /\ UNCHANGED <<now, rest, semConfig, cache, versionFiles, strategies, notDeviation>>

ConfirmCorrection(deviationId, correctedKnowledgeId) ==
    /\ deviationId \in DOMAIN activeDeviations
    /\ Len(memoryCache) < MaxEvents
    /\ activeDeviations' = [activeDeviations EXCEPT ![deviationId].status = "corrected"]
    /\ IF correctedKnowledgeId \in DOMAIN cache
       THEN /\ cache[correctedKnowledgeId].version < MaxVersion
            /\ versionFiles' = FilesAfterUpdate(correctedKnowledgeId)
            /\ cache' = Put(cache, correctedKnowledgeId,
                            UpdatedCard(cache[correctedKnowledgeId], [update_time |-> now]))
       ELSE UNCHANGED <<cache, versionFiles>>
    /\ memoryCache' = Logged(memoryCache, "deviation_corrected")
    /\ strategies' =
          MapSet(strategies,
                 NewStrategy(strategies,
                             "deviation_check_" \o activeDeviations[deviationId].type,
                             {"lastDeviation", "frequency"}, now))
    /\ ret' = [op |-> "confirmCorrection", id |-> deviationId]
    /\ UNCHANGED <<now, rest, semConfig, notDeviation>>

DismissDeviation(deviationId) ==
    /\ deviationId \in DOMAIN activeDeviations
    /\ Len(memoryCache) < MaxEvents
    /\ activeDeviations' = [activeDeviations EXCEPT ![deviationId].status = "dismissed"]
    /\ memoryCache' = Logged(memoryCache, "deviation_dismissed")
    /\ ret' = [op |-> "dismissDeviation", id |-> deviationId]
    /\ UNCHANGED <<now, rest, semConfig, cache, versionFiles, strategies, notDeviation>>

\* The records periodicCheck builds: one per outdated card, one per card whose
\* mastery_score is truthy and below 6.
TimelinessDeviation(card) ==
    [ id |-> "time_dev_" \o card.id, knowledgeId |-> card.id, type |-> "timeliness",
      severity |-> "medium", detectedAt |-> now, status |-> "detected" ]

AccuracyDeviation(card) ==
    [ id |-> "acc_dev_" \o card.id, knowledgeId |-> card.id, type |-> "accuracy",
      severity |-> "low", detectedAt |-> now, status |-> "detected" ]

PeriodicDeviations ==
    { TimelinessDeviation(cache[k]) : k \in { c \in DOMAIN cache : cache[c].timeliness = "outdated" } }
    \cup
    { AccuracyDeviation(cache[k]) : k \in { c \in DOMAIN cache :
                                              cache[c].mastery_score # 0
                                              /\ cache[c].mastery_score < 6 } }

PeriodicCheck ==
    /\ activeDeviations' =
          [ d \in (DOMAIN activeDeviations) \cup { r.id : r \in PeriodicDeviations } |->
              IF \E r \in PeriodicDeviations : r.id = d
              THEN CHOOSE r \in PeriodicDeviations : r.id = d
              ELSE activeDeviations[d] ]
    /\ ret' = [op |-> "periodicCheck", ids |-> { r.id : r \in PeriodicDeviations }]
    /\ UNCHANGED <<now, rest, semConfig, cache, versionFiles, strategies, memoryCache, notDeviation>>

\* The card store(knowledge) wrote to index.json at time t in an earlier run.
Indexed(id, knowledge, t) ==
    [ id |-> id, domain |-> knowledge.domain, mastery_score |-> knowledge.mastery_score,
      timeliness |-> knowledge.timeliness, usageCount |-> knowledge.usageCount,
      create_time |-> t, update_time |-> t, version |-> 1, previous_versions |-> <<>> ]

\* The index.json loadIndex finds: one outdated card with a low mastery score.
DeviationIndex ==
    [ k \in {"k1"} |->
        Indexed(k, [domain |-> "ai", mastery_score |-> 4, timeliness |-> "outdated",
                    usageCount |-> 0], 1) ]

CorrectedIds == {"k1", "k0"}

InitDeviation ==
    /\ now = StartTime
    /\ maxVersions = DefaultMaxVersions
    /\ enableVersioning = FALSE
    /\ cache = DeviationIndex
    /\ versionFiles = <<>>
    /\ strategies = <<>>
    /\ memoryCache = <<>>
    /\ activeDeviations = <<>>
    /\ path = NoPath
    /\ exec = Idle
    /\ InitRest
    /\ ret = [op |-> "new"]

NextDeviation ==
    \/ \E feedback \in Feedbacks, relatedKnowledgeId \in RelatedIds :
          DetectFromUserFeedback(feedback, relatedKnowledgeId)
    \/ \E deviationId \in DOMAIN activeDeviations : TriggerCorrectionLearning(deviationId)
    \/ \E deviationId \in DOMAIN activeDeviations, correctedKnowledgeId \in CorrectedIds :
          ConfirmCorrection(deviationId, correctedKnowledgeId)
    \/ \E deviationId \in DOMAIN activeDeviations : DismissDeviation(deviationId)
    \/ PeriodicCheck
    \/ Tick

SpecDeviation == InitDeviation /\ [][NextDeviation]_vars

\* The longest `sources` list of a card.
MaxSources == 6

SourceNames == {"s1", "s2"}

RECURSIVE SeqsOf(_, _)
SeqsOf(S, n) ==
    IF n = 0 THEN { <<>> }
    ELSE LET shorter == SeqsOf(S, n - 1)
         IN  shorter \cup { Append(q, x) : q \in { r \in shorter : Len(r) = n - 1 }, x \in S }

\* [...existingSources, 'new_learning_result'].slice(0, 5)
validationSources(existingSources) ==
    LET all == Append(existingSources, "new_learning_result")
    IN  SubSeq(all, 1, Min(5, Len(all)))

\* fetchSourceContent(source)
fetchSourceContent(source) == "Content from " \o source

\* multiSourceValidation(knowledgeId, newContent); every source matches, so
\* matchingSources is sources.length, and deviationRate is 1 - n/n, as the
\* fraction <<numerator, denominator>>.
MultiSourceValidation(knowledgeId, newContent) ==
    LET existingSources == IF knowledgeId \in DOMAIN cache THEN cache[knowledgeId].sources
                           ELSE <<>>
        names == validationSources(existingSources)
        sources == [ i \in 1..Len(names) |->
                       [ source |-> names[i],
                         content |-> IF names[i] = "new_learning_result" THEN newContent
                                     ELSE fetchSourceContent(names[i]),
                         matches |-> TRUE ] ]
        matchingSources == Cardinality({ i \in 1..Len(sources) : sources[i].matches })
    IN  /\ ret' = [ op |-> "multiSourceValidation", knowledgeId |-> knowledgeId,
                    newContent |-> newContent, sources |-> sources,
                    deviationRate |-> <<Len(sources) - matchingSources, Len(sources)>>,
                    verdict |-> "consistent" ]
        /\ UNCHANGED <<now, rest, semConfig, cache, versionFiles, strategies, memoryCache,
                       activeDeviations, notDeviation>>

\* The index.json loadIndex finds: one card, with any list of sources.
InitValidation ==
    /\ now = StartTime
    /\ maxVersions = DefaultMaxVersions
    /\ enableVersioning = FALSE
    /\ \E sources \in SeqsOf(SourceNames, MaxSources) :
          cache = [ k \in {"k1"} |-> Spread(DeviationIndex[k], [sources |-> sources]) ]
    /\ versionFiles = <<>>
    /\ strategies = <<>>
    /\ memoryCache = <<>>
    /\ activeDeviations = <<>>
    /\ path = NoPath
    /\ exec = Idle
    /\ InitRest
    /\ ret = [op |-> "new"]

NextValidation ==
    \E knowledgeId \in {"k1", "k0"}, newContent \in {"n1", "n2"} :
        MultiSourceValidation(knowledgeId, newContent)

SpecValidation == InitValidation /\ [][NextValidation]_vars

\* The feedback texts of a user: one with a keyword of isError's pattern, one
\* of thanks, and the English "this is wrong", which holds none of the
\* pattern's keywords.
FeedbackTexts == { {"cuowu"}, {"xiexie"}, {"this", "is", "wrong"} }

NextFeedback ==
    \/ \E feedback \in FeedbackTexts, relatedKnowledgeId \in RelatedIds :
          DetectFromUserFeedback(feedback, relatedKnowledgeId)
    \/ \E deviationId \in DOMAIN activeDeviations : TriggerCorrectionLearning(deviationId)
    \/ \E deviationId \in DOMAIN activeDeviations : DismissDeviation(deviationId)
    \/ Tick

SpecFeedback == InitDeviation /\ [][NextFeedback]_vars

\* periodicCheck over the cards that store calls have put in an empty
\* SemanticMemory.
NextPeriodic ==
    \/ \E id \in CardIds, knowledge \in StoreInputs : SemStore(id, knowledge)
    \/ \E id \in CardIds : SemDelete(id)
    \/ PeriodicCheck
    \/ Tick

SpecPeriodic == InitPrune /\ [][NextPeriodic]_vars

----------------------------------------------------------------------------
(* PathPlanner *)

Depths == {"basic", "advanced", "practical"}

Topics == {"react", "cooking"}

\* The demand ids generatePath is called with.
PathDemandIds == {"d1"}

\* A step as generatePath builds it; previousSteps is the parameter of the
\* validation step, empty for the others.
Step(id, type, priority, previousSteps) ==
    [id |-> id, type |-> type, priority |-> priority, status |-> "pending", result |-> "none",
     error |-> FALSE, previousSteps |-> previousSteps]

\* The steps generatePath pushes for a depth, in the order it pushes them;
\* the validation step takes steps.map(s => s.id) of the steps pushed before it.
PushedSteps(demandId, depth) ==
    LET before ==
            (IF depth \in {"basic", "advanced"}
             THEN <<Step("step_" \o demandId \o "_basic", "brewapi_basic", "high", <<>>)>>
             ELSE <<>>)
            \o (IF depth \in {"advanced", "practical"}
                THEN <<Step("step_" \o demandId \o "_docs", "browser_documentation",
                            "medium", <<>>)>>
                ELSE <<>>)
            \o (IF depth = "practical"
                THEN <<Step("step_" \o demandId \o "_practical", "browser_practical",
                            "medium", <<>>)>>
                ELSE <<>>)
    IN  Append(before, Step("step_" \o demandId \o "_validation", "validation", "high",
                            [i \in 1..Len(before) |-> before[i].id]))

\* generatePath without its sort.
KeepPushedOrder(steps) == steps

\* steps.sort by priorityOrder { high: 0, medium: 1, low: 2 }: the sort is
\* stable, so each priority class keeps its order.
SortByPriority(steps) ==
    SelectSeq(steps, LAMBDA st : st.priority = "high")
    \o SelectSeq(steps, LAMBDA st : st.priority = "medium")
    \o SelectSeq(steps, LAMBDA st : st.priority = "low")

\* A behaviour plans one topic, again and again at any depth.
GeneratePath(demandId, depth, topic) ==
    /\ exec.pc \in {"idle", "returned"}
    /\ path.topic \in {"", topic}
    /\ path' = [topic |-> topic, steps |-> SortByPriority(PushedSteps(demandId, depth)),
                status |-> "pending"]
    /\ exec' = Idle
    /\ ret' = [op |-> "generatePath", depth |-> depth]
    /\ UNCHANGED <<now, rest, semConfig, cache, versionFiles, strategies, memoryCache,
                   activeDeviations>>

\* executePath, up to its loop.
ExecutePath ==
    /\ exec.pc \in {"idle", "returned"}
    /\ path.status # "none"
    /\ path' = [path EXCEPT !.status = "in_progress"]
    /\ exec' = [pc |-> "loop", idx |-> 1, broke |-> FALSE, ran |-> {}]
    /\ ret' = [op |-> "executePath:called"]
    /\ UNCHANGED <<now, rest, semConfig, cache, versionFiles, strategies, memoryCache,
                   activeDeviations>>

\* step.type.startsWith('brewapi')
IsBrewApi(type) == type \in {"brewapi_basic", "brewapi_advanced"}

\* One round of the loop over path.steps. `ok` is whether executeStep returns
\* (or throws), `fallbackOk` whether the browser attempt of tryFallback does.
RunStep(ok, fallbackOk) ==
    /\ exec.pc = "loop"
    /\ exec.idx <= Len(path.steps)
    /\ LET i == exec.idx
           step == path.steps[i]
           effect == WithEffect(strategies, "step_type_" \o step.type, ok, now)
       IN  IF step.status \in {"completed", "skipped"}
           THEN /\ exec' = [exec EXCEPT !.idx = i + 1]
                /\ UNCHANGED <<path, strategies>>
           ELSE IF ok
           THEN /\ path' = [path EXCEPT !.steps[i].status = "completed",
                                        !.steps[i].result = "own"]
                /\ strategies' = effect
                /\ exec' = [exec EXCEPT !.idx = i + 1, !.ran = @ \cup {i}]
           ELSE IF step.priority = "high"
           THEN IF IsBrewApi(step.type) /\ fallbackOk
                THEN /\ path' = [path EXCEPT !.steps[i].status = "completed",
                                             !.steps[i].result = "fallback",
                                             !.steps[i].error = TRUE]
                     /\ strategies' = effect
                     /\ exec' = [exec EXCEPT !.idx = i + 1, !.ran = @ \cup {i}]
                ELSE /\ path' = [path EXCEPT !.status = "failed",
                                             !.steps[i].status = "in_progress",
                                             !.steps[i].error = TRUE]
                     /\ strategies' = effect
                     /\ exec' = [exec EXCEPT !.pc = "after", !.broke = TRUE,
                                             !.ran = @ \cup {i}]
           ELSE /\ path' = [path EXCEPT !.steps[i].status = "skipped",
                                        !.steps[i].error = TRUE]
                /\ strategies' = effect
                /\ exec' = [exec EXCEPT !.idx = i + 1, !.ran = @ \cup {i}]
    /\ UNCHANGED <<now, rest, semConfig, cache, versionFiles, memoryCache, activeDeviations, ret>>

\* The loop over path.steps has run out of steps.
LoopEnd ==
    /\ exec.pc = "loop"
    /\ exec.idx > Len(path.steps)
    /\ exec' = [exec EXCEPT !.pc = "after"]
    /\ UNCHANGED <<now, rest, semConfig, cache, versionFiles, strategies, memoryCache,
                   activeDeviations, path, ret>>

CompletedSteps(steps) == Cardinality({ i \in 1..Len(steps) : steps[i].status = "completed" })

\* allCompleted ? 'completed' : completedSteps > 0 ? 'in_progress' : 'failed'
FinalStatus(steps) ==
    IF CompletedSteps(steps) = Len(steps) THEN "completed"
    ELSE IF CompletedSteps(steps) > 0 THEN "in_progress"
    ELSE "failed"

CardOnAnyCompletedStep(status) == status # "failed"

\* knowledgeId: path.status === 'completed' ? await this.createKnowledgeCard(path) : undefined
MakesCard(status) == status = "completed"

\* extractDomain: the first domain of the table one of whose keywords the
\* lower-cased topic contains (the domain names are glossed: 前端 is
\* frontend, 后端 is backend); of Topics, "react" contains "react" and
\* "cooking" contains no keyword.
extractDomain(topic) ==
    IF topic = "react" THEN "frontend" ELSE "general"

\* The `knowledge` argument createKnowledgeCard hands to store.
PathKnowledge(topic) ==
    [domain |-> extractDomain(topic), mastery_score |-> 6, timeliness |-> "latest",
     usageCount |-> 0]

\* `kn_${path.topic.toLowerCase().replace(/\s+/g, '-')}_${Date.now()}`
KnowledgeId(topic) == "kn_" \o topic \o "_" \o ToString(now)

\* executePath, from the end of its loop to its return.
PathReturn ==
    /\ exec.pc = "after"
    /\ LET status == FinalStatus(path.steps)
           knowledgeId == KnowledgeId(path.topic)
           card == StoredCard(knowledgeId, PathKnowledge(path.topic))
       IN  /\ path' = [path EXCEPT !.status = status]
           /\ IF MakesCard(status)
              THEN /\ card.version <= MaxVersion
                   /\ cache' = Put(cache, knowledgeId, card)
                   /\ versionFiles' = FilesAfterStore(card)
              ELSE UNCHANGED <<cache, versionFiles>>
           /\ ret' = [ op |-> "executePath",
                       success |-> (status = "completed"),
                       completedSteps |-> CompletedSteps(path.steps),
                       totalSteps |-> Len(path.steps),
                       knowledgeId |-> IF MakesCard(status) THEN knowledgeId ELSE "undefined",
                       error |-> IF status = "failed" THEN "key step failed" ELSE "undefined" ]
    /\ exec' = [exec EXCEPT !.pc = "returned"]
    /\ UNCHANGED <<now, rest, semConfig, strategies, memoryCache, activeDeviations>>

InitPath ==
    /\ now = StartTime
    /\ maxVersions = DefaultMaxVersions
    /\ enableVersioning = FALSE
    /\ cache = <<>>
    /\ versionFiles = <<>>
    /\ strategies = <<>>
    /\ memoryCache = <<>>
    /\ activeDeviations = <<>>
    /\ path = NoPath
    /\ exec = Idle
    /\ InitRest
    /\ ret = [op |-> "new"]

NextPath ==
    \/ \E demandId \in PathDemandIds, depth \in Depths, topic \in Topics :
          GeneratePath(demandId, depth, topic)
    \/ ExecutePath
    \/ \E ok \in BOOLEAN, fallbackOk \in BOOLEAN : RunStep(ok, fallbackOk)
    \/ LoopEnd
    \/ PathReturn
    \/ Tick

SpecPath == InitPath /\ [][NextPath]_vars

----------------------------------------------------------------------------
(* WorkingMemory. One unit of `now` is 30 minutes here. *)

\* defaultTTL = 30 * 60 * 1000
DefaultTTL == 1

ItemTypes == {"raw_data", "temp_param"}

\* The ttl arguments of store: none of the clock's units, the default, twice it.
TTLs == {0, DefaultTTL, 2}

\* What Math.random().toString(36).substr(2, 9) yields.
Suffixes == {"a"}

\* The `updates` arguments of update.
ItemUpdates == { [type |-> "temp_param"], [content |-> "c2"] }

\* Time passes between two calls.
Elapse ==
    /\ now < StartTime + MaxClock
    /\ now' = now + 1
    /\ UNCHANGED <<semConfig, cache, versionFiles, strategies, memoryCache, activeDeviations,
                   path, exec, rest, ret>>

notWorking == <<now, semConfig, cache, versionFiles, strategies, memoryCache, activeDeviations,
                path, exec, profile, episodic, calls>>

WmId(t, suffix) == "wm_" \o ToString(t) \o "_" \o suffix

\* The ids a caller may hold: those of the items, and one never stored.
WmIds == (DOMAIN items) \cup {"wm_0_x"}

WmStore(type, ttl, suffix) ==
    LET id == WmId(now, suffix)
        item == [id |-> id, type |-> type, content |-> "c1", createdAt |-> now,
                 expiresAt |-> now + ttl]
    IN  /\ Cardinality((DOMAIN items) \cup {id}) <= MaxItems
        /\ items' = Put(items, id, item)
        /\ ret' = [op |-> "store", id |-> id]
        /\ UNCHANGED <<learningProgress, notWorking>>

ExpiredAtItsDeadline(item, t) == t >= item.expiresAt

\* Date.now() > item.expiresAt
IsExpired(item, t) == t > item.expiresAt

\* get: a result of {} is null.
WmGet(id) ==
    /\ IF id \notin DOMAIN items
       THEN /\ ret' = [op |-> "get", id |-> id, result |-> {}]
            /\ UNCHANGED items
       ELSE IF IsExpired(items[id], now)
       THEN /\ items' = Remove(items, {id})
            /\ ret' = [op |-> "get", id |-> id, result |-> {}]
       ELSE /\ ret' = [op |-> "get", id |-> id, result |-> {items[id]}]
            /\ UNCHANGED items
    /\ UNCHANGED <<learningProgress, notWorking>>

WmGetByType(type) ==
    /\ ret' = [op |-> "getByType", type |-> type,
               result |-> { items[id] : id \in { i \in DOMAIN items :
                                items[i].type = type /\ now <= items[i].expiresAt } }]
    /\ UNCHANGED <<working, notWorking>>

\* { ...item, ...updates, expiresAt: Date.now() + this.defaultTTL }
Refreshed(item, updates) ==
    [f \in DOMAIN item |->
        IF f = "expiresAt" THEN now + DefaultTTL
        ELSE IF f \in DOMAIN updates THEN updates[f] ELSE item[f]]

WmUpdate(id, updates) ==
    /\ IF id \notin DOMAIN items
       THEN /\ ret' = [op |-> "update", id |-> id, result |-> FALSE]
            /\ UNCHANGED items
       ELSE /\ items' = [items EXCEPT ![id] = Refreshed(items[id], updates)]
            /\ ret' = [op |-> "update", id |-> id, result |-> TRUE]
    /\ UNCHANGED <<learningProgress, notWorking>>

WmDelete(id) ==
    /\ items' = Remove(items, {id})
    /\ ret' = [op |-> "delete", id |-> id, result |-> (id \in DOMAIN items)]
    /\ UNCHANGED <<learningProgress, notWorking>>

\* cleanup, the sweep the constructor's setInterval runs.
WmCleanup ==
    LET expired == { id \in DOMAIN items : IsExpired(items[id], now) }
    IN  /\ items' = Remove(items, expired)
        /\ ret' = [op |-> "cleanup", count |-> Cardinality(expired)]
        /\ UNCHANGED <<learningProgress, notWorking>>

DemandIds == {"d1", "d2"}

\* The `updates` arguments of updateLearningProgress.
ProgressUpdates == { [status |-> "in_progress"] }

CreateLearningProgress(demandId, totalSteps) ==
    /\ learningProgress' =
          Put(learningProgress, demandId,
              [demandId |-> demandId, currentStep |-> 0, totalSteps |-> totalSteps,
               status |-> "pending", data |-> {}])
    /\ ret' = [op |-> "createLearningProgress", demandId |-> demandId]
    /\ UNCHANGED <<items, notWorking>>

UpdateLearningProgress(demandId, updates) ==
    /\ IF demandId \notin DOMAIN learningProgress
       THEN /\ ret' = [op |-> "updateLearningProgress", demandId |-> demandId, result |-> FALSE]
            /\ UNCHANGED learningProgress
       ELSE /\ learningProgress' =
                  [learningProgress EXCEPT ![demandId] = Spread(@, updates)]
            /\ ret' = [op |-> "updateLearningProgress", demandId |-> demandId, result |-> TRUE]
    /\ UNCHANGED <<items, notWorking>>

\* The entry after completeStep(demandId, stepData); `data` is the set of its keys.
StepCompleted(progress, stepData) ==
    LET currentStep == progress.currentStep + 1
    IN  [progress EXCEPT
            !.currentStep = currentStep,
            !.data = IF stepData THEN @ \cup {"step_" \o ToString(currentStep)} ELSE @,
            !.status = IF currentStep >= progress.totalSteps THEN "completed" ELSE @]

CompleteStep(demandId, stepData) ==
    /\ IF demandId \notin DOMAIN learningProgress
       THEN /\ ret' = [op |-> "completeStep", demandId |-> demandId, result |-> FALSE]
            /\ UNCHANGED learningProgress
       ELSE /\ learningProgress[demandId].currentStep <= MaxSteps
            /\ learningProgress' =
                  [learningProgress EXCEPT ![demandId] = StepCompleted(@, stepData)]
            /\ ret' = [op |-> "completeStep", demandId |-> demandId, result |-> TRUE]
    /\ UNCHANGED <<items, notWorking>>

FailLearning(demandId, error) ==
    /\ IF demandId \notin DOMAIN learningProgress
       THEN /\ ret' = [op |-> "failLearning", demandId |-> demandId, result |-> FALSE]
            /\ UNCHANGED learningProgress
       ELSE /\ learningProgress' =
                  [learningProgress EXCEPT
                      ![demandId].status = "failed",
                      ![demandId].data = IF error THEN @ \cup {"error"} ELSE @]
            /\ ret' = [op |-> "failLearning", demandId |-> demandId, result |-> TRUE]
    /\ UNCHANGED <<items, notWorking>>

\* An entry getActiveLearningProgress does not list.
IsNotActive(progress) == progress.status \notin {"pending", "in_progress"}

\* progress.status === 'completed' || progress.status === 'failed'
IsTerminal(progress) == progress.status \in {"completed", "failed"}

CleanupLearningProgress ==
    LET done == { d \in DOMAIN learningProgress : IsTerminal(learningProgress[d]) }
    IN  /\ learningProgress' = Remove(learningProgress, done)
        /\ ret' = [op |-> "cleanupLearningProgress", count |-> Cardinality(done)]
        /\ UNCHANGED <<items, notWorking>>

\* new WorkingMemory(): no items, no learning progress.
InitWorking ==
    /\ now = StartTime
    /\ maxVersions = DefaultMaxVersions
    /\ enableVersioning = FALSE
    /\ cache = <<>>
    /\ versionFiles = <<>>
    /\ strategies = <<>>
    /\ memoryCache = <<>>
    /\ activeDeviations = <<>>
    /\ path = NoPath
    /\ exec = Idle
    /\ InitRest
    /\ ret = [op |-> "new"]

NextWorking ==
    \/ \E type \in ItemTypes, ttl \in TTLs, suffix \in Suffixes : WmStore(type, ttl, suffix)
    \/ \E id \in WmIds : WmGet(id)
    \/ \E type \in ItemTypes : WmGetByType(type)
    \/ \E id \in WmIds, updates \in ItemUpdates : WmUpdate(id, updates)
    \/ \E id \in WmIds : WmDelete(id)
    \/ WmCleanup
    \/ Elapse

SpecWorking == InitWorking /\ [][NextWorking]_vars

NextProgress ==
    \/ \E demandId \in DemandIds, totalSteps \in 1..MaxSteps :
          CreateLearningProgress(demandId, totalSteps)
    \/ \E demandId \in DemandIds, updates \in ProgressUpdates :
          UpdateLearningProgress(demandId, updates)
    \/ \E demandId \in DemandIds, stepData \in BOOLEAN : CompleteStep(demandId, stepData)
    \/ \E demandId \in DemandIds, error \in BOOLEAN : FailLearning(demandId, error)
    \/ CleanupLearningProgress

SpecProgress == InitWorking /\ [][NextProgress]_vars

----------------------------------------------------------------------------
(* SelfPerception. One unit of `now` is 30 minutes here. *)

\* 60*60*1000
Hour == 2

notPerception == <<semConfig, memoryCache, activeDeviations, path, exec, working, episodic,
                   calls>>

\* knowledge.domain || 'general'
DomainOf(card) == IF card.domain = "" THEN "general" ELSE card.domain

RECURSIVE TotalScore(_, _)
TotalScore(cards, ids) ==
    IF ids = {} THEN 0
    ELSE LET id == CHOOSE x \in ids : TRUE
         IN  cards[id].mastery_score + TotalScore(cards, ids \ {id})

\* domainStats.get(domain).topics
TopicsOf(cards, domain) == { id \in DOMAIN cards : DomainOf(cards[id]) = domain }

\* avgScore < bound, with avgScore = totalScore / count
AvgBelow(cards, domain, bound) ==
    TotalScore(cards, TopicsOf(cards, domain)) < bound * Cardinality(TopicsOf(cards, domain))

\* The profile generateCapabilityProfile builds from the cards at time t.
ProfileOf(cards, t) ==
    LET domains == { DomainOf(cards[id]) : id \in DOMAIN cards }
    IN  [ gaps |-> { id \in DOMAIN cards :
                        /\ AvgBelow(cards, DomainOf(cards[id]), 6)
                        /\ cards[id].mastery_score < 6 },
          outdated |-> { id \in DOMAIN cards : cards[id].timeliness = "outdated" },
          strengths |-> { d \in domains : ~AvgBelow(cards, d, 8) },
          generatedAt |-> t,
          null |-> FALSE ]

\* The state generateCapabilityProfile leaves: the profile, and the strategy
\* 'capability_profile' it stores in the program memory.
Generated ==
    /\ profile' = ProfileOf(cache, now)
    /\ strategies' = MapSet(strategies,
                            NewStrategy(strategies, "capability_profile",
                                        {"profile", "benchmarks"}, now))

GenerateCapabilityProfile ==
    /\ Generated
    /\ ret' = [op |-> "generateCapabilityProfile", at |-> now, null |-> FALSE,
               generatedAt |-> now, result |-> {}]
    /\ UNCHANGED <<now, cache, versionFiles, notPerception>>

GetProfile ==
    /\ ret' = [op |-> "getProfile", at |-> now, null |-> profile.null,
               generatedAt |-> profile.generatedAt, result |-> {}]
    /\ UNCHANGED <<now, cache, versionFiles, strategies, profile, notPerception>>

\* !this.profile || Date.now() - this.profile.generatedAt > 60*60*1000
IsStale(p, t) == p.null \/ t - p.generatedAt > Hour

\* identifyGaps, identifyOutdated and getStrengths: `field` is the field of
\* the profile the call returns.
ReadProfile(op, field) ==
    /\ IF IsStale(profile, now)
       THEN Generated
       ELSE UNCHANGED <<profile, strategies>>
    /\ ret' = [op |-> op, at |-> now, null |-> profile'.null,
               generatedAt |-> profile'.generatedAt, result |-> profile'[field]]
    /\ UNCHANGED <<now, cache, versionFiles, notPerception>>

IdentifyGaps == ReadProfile("identifyGaps", "gaps")

IdentifyOutdated == ReadProfile("identifyOutdated", "outdated")

GetStrengths == ReadProfile("getStrengths", "strengths")

Deltas == {2, -2}

\* updateMastery adding delta without the clamp.
UnclampedScore(old, delta) == old + delta

\* Math.min(10, Math.max(0, (knowledge.mastery_score || 0) + delta))
NewScore(old, delta) == Min(10, Max(0, old + delta))

\* updateMastery(knowledgeId, delta), run with no other call in between.
UpdateMastery(knowledgeId, delta) ==
    /\ IF knowledgeId \notin DOMAIN cache
       THEN UNCHANGED <<cache, versionFiles, profile>>
       ELSE /\ cache[knowledgeId].version < MaxVersion
            /\ versionFiles' = FilesAfterUpdate(knowledgeId)
            /\ cache' = Put(cache, knowledgeId,
                            UpdatedCard(cache[knowledgeId],
                                [mastery_score |->
                                    NewScore(cache[knowledgeId].mastery_score, delta),
                                 update_time |-> now]))
            /\ profile' = NoProfile
    /\ ret' = [op |-> "updateMastery", at |-> now, null |-> TRUE, generatedAt |-> 0,
               result |-> {}]
    /\ UNCHANGED <<now, strategies, notPerception>>

\* The index.json loadIndex finds: a weak outdated card and a strong one.
PerceptionIndex ==
    [ k \in {"k1", "k2"} |->
        IF k = "k1"
        THEN Indexed(k, [domain |-> "ai", mastery_score |-> 4, timeliness |-> "outdated",
                         usageCount |-> 0], 1)
        ELSE Indexed(k, [domain |-> "", mastery_score |-> 8, timeliness |-> "latest",
                         usageCount |-> 0], 2) ]

InitPerception ==
    /\ now = StartTime
    /\ maxVersions = DefaultMaxVersions
    /\ enableVersioning = FALSE
    /\ cache = PerceptionIndex
    /\ versionFiles = <<>>
    /\ strategies = <<>>
    /\ memoryCache = <<>>
    /\ activeDeviations = <<>>
    /\ path = NoPath
    /\ exec = Idle
    /\ InitRest
    /\ ret = [op |-> "new", at |-> now, null |-> TRUE, generatedAt |-> 0, result |-> {}]

NextPerception ==
    \/ GenerateCapabilityProfile
    \/ GetProfile
    \/ IdentifyGaps
    \/ IdentifyOutdated
    \/ GetStrengths
    \/ \E knowledgeId \in CardIds \cup {"k0"}, delta \in Deltas :
          UpdateMastery(knowledgeId, delta)
    \/ Elapse

SpecPerception == InitPerception /\ [][NextPerception]_vars

\* updateMastery, call by call: it awaits semanticMemory.get, then
\* semanticMemory.update, and clears the profile after that; other calls may
\* run at each await.
MasteryCallers == {"m1", "m2"}

notMastery == <<now, semConfig, strategies, memoryCache, activeDeviations, path, exec, working,
                episodic, storeCalls, orchestrator>>

\* const knowledge = await this.semanticMemory.get(knowledgeId): of the card
\* the cache holds at the call the mastery_score is kept, {} for null.
MasteryCall(c, knowledgeId, delta) ==
    /\ c \notin DOMAIN masteryCalls
    /\ masteryCalls' = Put(masteryCalls, c,
           [ pc |-> "get", id |-> knowledgeId, delta |-> delta,
             knowledge |-> IF knowledgeId \in DOMAIN cache
                           THEN {cache[knowledgeId].mastery_score} ELSE {} ])
    /\ ret' = [op |-> "updateMastery:called", id |-> knowledgeId]
    /\ UNCHANGED <<cache, versionFiles, profile, notMastery>>

\* After the get: nothing more for null, else semanticMemory.update runs (it
\* returns null, changing nothing, if the card has been deleted meanwhile).
MasteryUpdate(c) ==
    /\ c \in DOMAIN masteryCalls
    /\ masteryCalls[c].pc = "get"
    /\ LET call == masteryCalls[c]
           id == call.id
       IN  IF call.knowledge = {}
           THEN /\ masteryCalls' = Remove(masteryCalls, {c})
                /\ ret' = [op |-> "updateMastery", id |-> id, found |-> FALSE]
                /\ UNCHANGED <<cache, versionFiles>>
           ELSE /\ IF id \in DOMAIN cache
                   THEN /\ cache[id].version < MaxVersion
                        /\ versionFiles' = FilesAfterUpdate(id)
                        /\ cache' = Put(cache, id,
                               UpdatedCard(cache[id],
                                   [mastery_score |->
                                        NewScore(CHOOSE k \in call.knowledge : TRUE,
                                                 call.delta),
                                    update_time |-> now]))
                   ELSE UNCHANGED <<cache, versionFiles>>
                /\ masteryCalls' = [masteryCalls EXCEPT ![c].pc = "updated"]
                /\ ret' = [op |-> "updateMastery:updated", id |-> id]
    /\ UNCHANGED <<profile, notMastery>>

\* After the update: this.profile = null.
MasteryDone(c) ==
    /\ c \in DOMAIN masteryCalls
    /\ masteryCalls[c].pc = "updated"
    /\ profile' = NoProfile
    /\ masteryCalls' = Remove(masteryCalls, {c})
    /\ ret' = [op |-> "updateMastery", id |-> masteryCalls[c].id, found |-> TRUE]
    /\ UNCHANGED <<cache, versionFiles, notMastery>>

\* delete(id), as another caller of the SemanticMemory may call it.
MasteryDelete(id) ==
    /\ id \in DOMAIN cache
    /\ cache' = Remove(cache, {id})
    /\ ret' = [op |-> "delete", id |-> id]
    /\ UNCHANGED <<versionFiles, profile, masteryCalls, notMastery>>

InitMastery == InitPerception

\* The ids updateMastery and delete are called with: a card of the index and
\* an id that is not in it.
MasteryIds == {"k1", "k0"}

\* The deltas: each takes the card's score of 4 to a bound of [0, 10] in one
\* or two calls.
MasteryDeltas == {4, -10}

NextMastery ==
    \/ \E c \in MasteryCallers, knowledgeId \in MasteryIds, delta \in MasteryDeltas :
          MasteryCall(c, knowledgeId, delta)
    \/ \E c \in MasteryCallers : MasteryUpdate(c)
    \/ \E c \in MasteryCallers : MasteryDone(c)
    \/ \E id \in MasteryIds : MasteryDelete(id)
    \/ IdentifyGaps
    \/ IdentifyOutdated
    \/ GetStrengths

SpecMastery == InitMastery /\ [][NextMastery]_vars

----------------------------------------------------------------------------
(* EpisodicMemory over its files. One unit of `now` is half a day here.   *)
(* A call is a task: the code up to an `await` runs in one step, and the   *)
(* rest of the call resumes in a later step.                               *)

\* 24 * 60 * 60 * 1000
Day == 2

\* config.retentionDays
RetentionDays == 1

\* config.maxEventsPerDay: with 0, every log finds the cache over its limit.
MaxEventsPerDay == 0

\* const daysToLoad = 7
DaysToLoad == 7

Tasks == {"t1", "t2"}

IdleTask == [pc |-> "idle", cutoff |-> 0, toArchive |-> <<>>, beforeCount |-> 0, op |-> "none"]

notEpisodic == <<now, semConfig, cache, versionFiles, strategies, activeDeviations, path, exec,
                 working, profile, calls>>

\* formatDate(new Date(t)): the UTC day t falls on.
formatDate(t) == t \div Day

\* parseDate(dateStr).getTime(): the first instant of that day.
parseDate(dateStr) == dateStr * Day

\* loadDayEvents(dateStr): the lines of the day file, none if there is no file.
loadDayEvents(dateStr) == IF dateStr \in DOMAIN dayFiles THEN dayFiles[dateStr] ELSE <<>>

\* fs.appendFileSync(file, line)
Appended(files, name, event) ==
    Put(files, name, IF name \in DOMAIN files THEN Append(files[name], event) ELSE <<event>>)

\* What Math.random().toString(36).substr(2, 9) yields in log.
EventSuffixes == {"a"}

EventId(t, suffix) == "ep_" \o ToString(t) \o "_" \o suffix

EventsOf(files) == UNION { { files[f][i] : i \in 1..Len(files[f]) } : f \in DOMAIN files }

\* Every event the instance or its directory holds.
KnownEvents ==
    { memoryCache[i] : i \in 1..Len(memoryCache) } \cup EventsOf(dayFiles) \cup EventsOf(archive)

\* log, up to the await of appendToDayFile.
LogCall(t, eventType, suffix) ==
    LET fullEvent == [id |-> EventId(now, suffix), event_type |-> eventType, timestamp |-> now]
    IN  /\ tasks[t].pc = "idle"
        /\ Cardinality(KnownEvents) < MaxEvents
        /\ \A e \in KnownEvents : e.id # fullEvent.id
        /\ memoryCache' = Append(memoryCache, fullEvent)
        /\ dayFiles' = Appended(dayFiles, formatDate(now), fullEvent)
        /\ tasks' = [tasks EXCEPT ![t] = [IdleTask EXCEPT !.pc = "logged", !.op = "log"]]
        /\ ret' = [op |-> "log:called", task |-> t]
        /\ UNCHANGED <<archive, loading, notEpisodic>>

\* deleteOldDayFiles(cutoff), whose body has no await: the day files left,
\* and the archive files after the copies.
OldDays(cutoff) == { d \in DOMAIN dayFiles : parseDate(d) < cutoff }

ArchiveAfterCopies(arch, cutoff) ==
    [ d \in (DOMAIN arch) \cup OldDays(cutoff) |->
        IF d \in DOMAIN arch THEN arch[d] ELSE dayFiles[d] ]

\* cleanup from its entry, or from the return of an archiveEvent, to its next
\* await: with events left to archive it appends the next one to its archive
\* file; with none left it filters the cache and deletes the old day files.
CleanupSegment(t, op, cutoff, toArchive, beforeCount) ==
    IF toArchive # <<>>
    THEN /\ archive' = Appended(archive, formatDate(Head(toArchive).timestamp), Head(toArchive))
         /\ tasks' = [tasks EXCEPT ![t] = [pc |-> "archiving", cutoff |-> cutoff,
                                           toArchive |-> Tail(toArchive),
                                           beforeCount |-> beforeCount, op |-> op]]
         /\ UNCHANGED <<memoryCache, dayFiles>>
    ELSE /\ memoryCache' = SelectSeq(memoryCache, LAMBDA e : e.timestamp >= cutoff)
         /\ archive' = ArchiveAfterCopies(archive, cutoff)
         /\ dayFiles' = Remove(dayFiles, OldDays(cutoff))
         /\ tasks' = [tasks EXCEPT ![t] = [pc |-> "deleted", cutoff |-> cutoff,
                                           toArchive |-> <<>>,
                                           beforeCount |-> beforeCount, op |-> op]]

CleanupEntry(t, op) ==
    LET cutoff == now - RetentionDays * Day
    IN  CleanupSegment(t, op, cutoff,
                       SelectSeq(memoryCache, LAMBDA e : e.timestamp < cutoff),
                       Len(memoryCache))

\* log, from the return of appendToDayFile on.
LogResume(t) ==
    /\ tasks[t].pc = "logged"
    /\ IF Len(memoryCache) > MaxEventsPerDay * 30
       THEN /\ CleanupEntry(t, "log")
            /\ ret' = [op |-> "log:cleanup", task |-> t]
       ELSE /\ tasks' = [tasks EXCEPT ![t] = IdleTask]
            /\ ret' = [op |-> "log", task |-> t]
            /\ UNCHANGED <<memoryCache, dayFiles, archive>>
    /\ UNCHANGED <<loading, notEpisodic>>

\* cleanup, called by the orchestrator's prune task.
CleanupCall(t) ==
    /\ tasks[t].pc = "idle"
    /\ CleanupEntry(t, "cleanup")
    /\ ret' = [op |-> "cleanup:called", task |-> t]
    /\ UNCHANGED <<loading, notEpisodic>>

CleanupResume(t) ==
    /\ tasks[t].pc \in {"archiving", "deleted"}
    /\ IF tasks[t].pc = "archiving"
       THEN /\ CleanupSegment(t, tasks[t].op, tasks[t].cutoff, tasks[t].toArchive,
                              tasks[t].beforeCount)
            /\ ret' = [op |-> "cleanup:resumed", task |-> t]
       ELSE /\ tasks' = [tasks EXCEPT ![t] = IdleTask]
            /\ ret' = [op |-> tasks[t].op, task |-> t,
                       removed |-> tasks[t].beforeCount - Len(memoryCache)]
            /\ UNCHANGED <<memoryCache, dayFiles, archive>>
    /\ UNCHANGED <<loading, notEpisodic>>

\* loadRecentEvents, from the return of one loadDayEvents to the await of the
\* next: it pushes the events read, then reads the file of the day before.
LoadResume ==
    /\ loading.pc = "loading"
    /\ memoryCache' = memoryCache \o loading.pending
    /\ loading' =
          IF loading.i + 1 < DaysToLoad
          THEN [loading EXCEPT
                  !.i = @ + 1,
                  !.pending = loadDayEvents(formatDate(loading.start - (loading.i + 1) * Day))]
          ELSE [loading EXCEPT !.pc = "done", !.i = @ + 1, !.pending = <<>>,
                               !.initialized = TRUE]
    /\ UNCHANGED <<dayFiles, archive, tasks, notEpisodic, ret>>

\* results.sort((a, b) => b.timestamp - a.timestamp): a stable sort, newest first.
RECURSIVE InsertByTime(_, _)
InsertByTime(sorted, e) ==
    IF sorted = <<>> THEN <<e>>
    ELSE IF Head(sorted).timestamp < e.timestamp
         THEN <<e>> \o sorted
         ELSE <<Head(sorted)>> \o InsertByTime(Tail(sorted), e)

RECURSIVE SortNewestFirst(_)
SortNewestFirst(events) ==
    IF events = <<>> THEN <<>>
    ELSE InsertByTime(SortNewestFirst(SubSeq(events, 1, Len(events) - 1)), events[Len(events)])

EventTypes == {"learning"}

\* The queries of search: no field set, or event_type set.
Queries == {"", "learning"}

\* search(query), whose body has no await. With no field set `results` is
\* the cache itself, which the sort then reorders in place.
Search(query) ==
    /\ memoryCache' = IF query = "" THEN SortNewestFirst(memoryCache) ELSE memoryCache
    /\ ret' = [op |-> "search", query |-> query,
               result |-> SortNewestFirst(
                             SelectSeq(memoryCache,
                                       LAMBDA e : query = "" \/ e.event_type = query))]
    /\ UNCHANGED <<dayFiles, archive, tasks, loading, notEpisodic>>

\* An event an earlier process logged at time t.
Seeded(t) == [id |-> EventId(t, "s"), event_type |-> "learning", timestamp |-> t]

\* The storage directory the constructor finds: empty, or yesterday's file.
SeedDirs ==
    { <<>>,
      [ d \in {formatDate(StartTime) - 1} |->
          <<Seeded(StartTime - 2), Seeded(StartTime - 1)>> ] }

\* What the other components hold while an EpisodicMemory is exercised.
InitNotEpisodic ==
    /\ now = StartTime
    /\ maxVersions = DefaultMaxVersions
    /\ enableVersioning = FALSE
    /\ cache = <<>>
    /\ versionFiles = <<>>
    /\ strategies = <<>>
    /\ activeDeviations = <<>>
    /\ path = NoPath
    /\ exec = Idle
    /\ items = <<>>
    /\ learningProgress = <<>>
    /\ profile = NoProfile
    /\ storeCalls = <<>>
    /\ masteryCalls = <<>>
    /\ engine = NoEngine
    /\ flows = <<>>
    /\ learner = NoLearner
    /\ ret = [op |-> "new"]

\* new EpisodicMemory(config): the constructor has called loadRecentEvents,
\* which has read today's file and awaits.
InitLoad ==
    /\ InitNotEpisodic
    /\ memoryCache = <<>>
    /\ dayFiles \in SeedDirs
    /\ archive = <<>>
    /\ tasks = [t \in Tasks |-> IdleTask]
    /\ loading = [pc |-> "loading", i |-> 0, start |-> now,
                  pending |-> loadDayEvents(formatDate(now)), initialized |-> FALSE]

NextLoad ==
    \/ LoadResume
    \/ \E t \in Tasks, eventType \in EventTypes, suffix \in EventSuffixes :
          LogCall(t, eventType, suffix)
    \/ \E t \in Tasks : LogResume(t)
    \/ \E t \in Tasks : CleanupResume(t)
    \/ \E query \in Queries : Search(query)

SpecLoad == InitLoad /\ [][NextLoad]_vars

\* The cache once loadRecentEvents has run to its end over the directory
\* `files` with no other call in between: the events of days today - i, for
\* i from `i` up to DaysToLoad - 1, in that order.
RECURSIVE LoadedFrom(_, _)
LoadedFrom(files, i) ==
    IF i >= DaysToLoad THEN <<>>
    ELSE LET dateStr == formatDate(StartTime - i * Day)
         IN  (IF dateStr \in DOMAIN files THEN files[dateStr] ELSE <<>>)
             \o LoadedFrom(files, i + 1)

\* An EpisodicMemory whose loadRecentEvents has finished.
InitEpisodic ==
    /\ InitNotEpisodic
    /\ dayFiles \in SeedDirs
    /\ memoryCache = LoadedFrom(dayFiles, 0)
    /\ archive = <<>>
    /\ tasks = [t \in Tasks |-> IdleTask]
    /\ loading = [pc |-> "done", i |-> DaysToLoad, start |-> now, pending |-> <<>>,
                  initialized |-> TRUE]

NextEpisodic ==
    \/ \E t \in Tasks, eventType \in EventTypes, suffix \in EventSuffixes :
          LogCall(t, eventType, suffix)
    \/ \E t \in Tasks : LogResume(t)
    \/ \E t \in Tasks : CleanupCall(t)
    \/ \E t \in Tasks : CleanupResume(t)
    \/ Elapse

SpecEpisodic == InitEpisodic /\ [][NextEpisodic]_vars

----------------------------------------------------------------------------
(* SemanticMemory: claims *)

\* C1: with versioning enabled, after any sequence of store and update calls,
\* for every version v from 1 up to the live card's version, getVersion(id, v)
\* returns a snapshot whose version field is v (so the version update has just
\* produced is retrievable).
C1_EveryVersionRetrievable ==
    enableVersioning =>
        \A id \in DOMAIN cache : \A v \in 1..cache[id].version :
            HasVersion(id, v) /\ getVersion(id, v).version = v

\* C2: previous_versions never holds more than maxVersions entries, for every
\* configured maxVersions >= 0.
C2_PreviousVersionsCapped ==
    \A id \in DOMAIN cache : Len(cache[id].previous_versions) <= maxVersions

IsCore(card) == card.mastery_score >= 8 /\ card.domain # "general"

\* C3: prune(threshold) never removes a card with mastery_score >= 8 and
\* domain # "general", whatever the threshold.
C3_PruneKeepsCore ==
    [][\A threshold \in Thresholds :
          SemPrune(threshold) =>
              \A id \in DOMAIN cache : IsCore(cache[id]) => id \in DOMAIN cache']_vars

\* C3's case: prune has run with a threshold above the weight of a core card,
\* has deleted something else, and the core card is still there.
C3_Witness ==
    /\ ret.op = "prune"
    /\ ret.pruned # {}
    /\ \E id \in DOMAIN cache :
          IsCore(cache[id]) /\ calculateRetentionWeight(cache[id]) < ret.threshold

----------------------------------------------------------------------------
(* ProgramMemory: claims *)

OptimalOfType(strats, type) ==
    { i \in 1..Len(strats) : strats[i].type = type /\ strats[i].isOptimal }

\* C4: in every reachable state at most one strategy of each type has
\* isOptimal = true.
C4_AtMostOneOptimalPerType ==
    \A type \in StrategyTypes : Cardinality(OptimalOfType(strategies, type)) <= 1

\* C5: after markOptimal(name) on an existing name, the named strategy is the
\* one and only optimal strategy of its type, and the strategies of the other
\* types keep their flags.
C5_MarkOptimalExactlyOne ==
    [][\A name \in StrategyNames :
          (ret'.op = "markOptimal" /\ FindByName(strategies, name) # 0
             /\ MarkOptimal(name)) =>
              LET i == FindByName(strategies, name)
                  type == strategies[i].type
              IN  /\ Len(strategies') = Len(strategies)
                  /\ strategies'[i].name = name
                  /\ OptimalOfType(strategies', type) = {i}
                  /\ \A j \in 1..Len(strategies) :
                        strategies[j].type # type =>
                            strategies'[j] = strategies[j]]_vars

\* C5's case: markOptimal has just moved the flag from another strategy of
\* the type to the named one, while a strategy of another type is optimal.
C5_Witness ==
    /\ ret.op = "markOptimal"
    /\ ret.found
    /\ ret.cleared # {}
    /\ LET i == FindByName(strategies, ret.name)
       IN  /\ strategies[i].isOptimal
           /\ \E j \in 1..Len(strategies) :
                 strategies[j].type # strategies[i].type /\ strategies[j].isOptimal

\* C6: an iterateStrategies call that directly follows another one returns
\* empty promoted and demoted sets and changes no isOptimal flag.
C6_IterateIdempotent ==
    [][(ret.op = "iterateStrategies" /\ IterateStrategies) =>
          /\ ret'.promoted = {}
          /\ ret'.demoted = {}
          /\ \A j \in 1..Len(strategies') : \E i \in 1..Len(strategies) :
                /\ strategies[i].id = strategies'[j].id
                /\ strategies[i].isOptimal = strategies'[j].isOptimal]_vars

\* C7: storeStrategy on a name that exists keeps the id, successRate,
\* usageCount, lastUsed, createdAt and isOptimal of that strategy.
C7_RestoreKeepsUsage ==
    [][\A name \in StoreNames, content \in Contents :
          (StoreStrategy(name, content) /\ FindByName(strategies, name) # 0) =>
              LET old == strategies[FindByName(strategies, name)]
                  new == strategies'[FindByName(strategies', name)]
              IN  /\ new.id = old.id
                  /\ new.successRate = old.successRate
                  /\ new.usageCount = old.usageCount
                  /\ new.lastUsed = old.lastUsed
                  /\ new.createdAt = old.createdAt
                  /\ new.isOptimal = old.isOptimal]_vars

----------------------------------------------------------------------------
(* DeviationCorrection: claims *)

StatusMoves ==
    { <<"detected", "verifying">>, <<"verifying", "corrected">>, <<"detected", "dismissed">> }

\* C8: a deviation record's status only moves detected -> verifying ->
\* corrected or detected -> dismissed: corrected and dismissed are final, and
\* corrected is entered from verifying alone.
C8_StatusMachine ==
    [][\A d \in (DOMAIN activeDeviations) \cap (DOMAIN activeDeviations') :
          \/ activeDeviations'[d].status = activeDeviations[d].status
          \/ <<activeDeviations[d].status, activeDeviations'[d].status>> \in StatusMoves]_vars

----------------------------------------------------------------------------
(* PathPlanner: claims *)

\* C9: when a high-priority step has failed and its fallback has failed or
\* does not exist, executePath returns with the path 'failed' and has run no
\* step after the failed one.
C9_FailedHighStepFailsPath ==
    (exec.pc = "returned" /\ exec.broke) =>
        /\ path.status = "failed"
        /\ \A i \in exec.ran : i <= exec.idx

SomeSkipped(steps) == \E i \in 1..Len(steps) : steps[i].status = "skipped"

\* C10 as claimed: a card is stored and its id returned also on partial
\* completion, when a step completed and low or medium steps were skipped.
C10_CardOnPartialCompletion ==
    (ret.op = "executePath" /\ exec.pc = "returned" /\ ~exec.broke
       /\ ret.completedSteps > 0 /\ SomeSkipped(path.steps)) =>
        /\ ret.knowledgeId # "undefined"
        /\ ret.knowledgeId \in DOMAIN cache

\* C10 as amended: executePath stores a card (mastery_score 6, timeliness
\* latest) and returns its id exactly when every step is completed; otherwise
\* it stores nothing and returns no knowledgeId.
C10_CardOnlyWhenAllCompleted ==
    [][PathReturn =>
          IF CompletedSteps(path.steps) = Len(path.steps)
          THEN /\ ret'.knowledgeId = KnowledgeId(path.topic)
               /\ ret'.knowledgeId \in DOMAIN cache'
               /\ cache'[ret'.knowledgeId].mastery_score = 6
               /\ cache'[ret'.knowledgeId].timeliness = "latest"
          ELSE /\ ret'.knowledgeId = "undefined"
               /\ cache' = cache]_vars

\* C10's case: executePath has returned from a partial completion (a step
\* completed, a medium step skipped, no abort) without a knowledgeId.
C10_Witness ==
    /\ ret.op = "executePath"
    /\ exec.pc = "returned"
    /\ ~exec.broke
    /\ ret.completedSteps > 0
    /\ SomeSkipped(path.steps)
    /\ ret.knowledgeId = "undefined"
    /\ path.status = "in_progress"

\* C11: whenever executePath returns a result with success = false, the
\* result's error string is set.
C11_FailureCarriesError ==
    (ret.op = "executePath" /\ ~ret.success) => ret.error # "undefined"

----------------------------------------------------------------------------
(* WorkingMemory: claims *)

\* C12: get(id) returns null whenever the time is past the item's expiresAt
\* (or the item is absent) and the item whenever it is present and the time
\* is not past expiresAt, whatever the sweep has done; getByType returns the
\* items of the type that get returns at the same instant.
C12_LazyExpiry ==
    [][/\ \A id \in WmIds :
             (ret'.op = "get" /\ WmGet(id)) =>
                 ret'.result = IF id \in DOMAIN items /\ ~(now > items[id].expiresAt)
                               THEN {items[id]} ELSE {}
       /\ \A type \in ItemTypes :
             (ret'.op = "getByType" /\ WmGetByType(type)) =>
                 ret'.result = { items[id] : id \in { i \in DOMAIN items :
                                    /\ items[i].type = type
                                    /\ ~(now > items[i].expiresAt) } }]_vars

\* C12's case: get has just returned null for an item past its expiresAt that
\* no sweep had removed, while another item is live.
C12_Witness ==
    /\ ret.op = "get"
    /\ ret.result = {}
    /\ ret.id # "wm_0_x"
    /\ ret.id \notin DOMAIN items
    /\ \E id \in DOMAIN items : now <= items[id].expiresAt /\ items[id].createdAt < now

\* C13: an item whose expiresAt has passed is never live again: no later
\* state holds it with an expiresAt the time has not passed.
C13_ExpiredIsGone ==
    [][\A id \in DOMAIN items :
          now > items[id].expiresAt =>
              ~(id \in DOMAIN items' /\ now' <= items'[id].expiresAt)]_vars

\* C14: completeStep and failLearning leave the status of a completed or
\* failed entry as it is.
C14_TerminalProgressStays ==
    [][\A d \in DOMAIN learningProgress :
          (/\ learningProgress[d].status \in {"completed", "failed"}
           /\ ret'.op \in {"completeStep", "failLearning"}
           /\ d \in DOMAIN learningProgress')
              => learningProgress'[d].status = learningProgress[d].status]_vars

----------------------------------------------------------------------------
(* SelfPerception: claims *)

ReadPaths == {"getProfile", "identifyGaps", "identifyOutdated", "getStrengths"}

\* C15: no read path (getProfile, identifyGaps, identifyOutdated,
\* getStrengths) returns from a profile whose generatedAt is more than one
\* hour before the read.
C15_NoStaleRead ==
    (ret.op \in ReadPaths /\ ~ret.null) => ret.at - ret.generatedAt <= Hour

----------------------------------------------------------------------------
(* EpisodicMemory: claims *)

\* C16: every event logged stays durably present: an event the cache holds
\* is in its day-partition file or in an archive file.
C16_LoggedEventsDurable ==
    \A i \in 1..Len(memoryCache) :
        memoryCache[i] \in EventsOf(dayFiles) \cup EventsOf(archive)

\* C17: no archive file holds the same event twice.
C17_ArchivedOnce ==
    \A d \in DOMAIN archive :
        \A i, j \in 1..Len(archive[d]) : i # j => archive[d][i] # archive[d][j]

\* The day partitions loadRecentEvents reads.
RecentDays == { formatDate(loading.start - i * Day) : i \in 0..(DaysToLoad - 1) }

\* C18: a search with no filter, issued at any point after the constructor
\* has returned, returns every event of the 7 most recent day partitions.
C18_SearchSeesRecentDays ==
    [][(ret'.op = "search" /\ Search("")) =>
          \A d \in RecentDays \cap DOMAIN dayFiles :
              \A i \in 1..Len(dayFiles[d]) :
                  \E k \in 1..Len(ret'.result) : ret'.result[k] = dayFiles[d][i]]_vars

\* obj[f] as JavaScript reads it: undefined for a property obj does not have.
FieldOf(obj, f) == IF f \in DOMAIN obj THEN obj[f] ELSE Undefined

\* The properties store sets itself.
SetByStore == {"create_time", "update_time", "version", "previous_versions"}

Overlapping(c1, c2) ==
    /\ c1 \in DOMAIN storeCalls
    /\ c2 \in DOMAIN storeCalls
    /\ c1 # c2
    /\ storeCalls[c1].id = storeCalls[c2].id

\* C19 as stated: two overlapping store calls for the same id interleave
\* between the read of the existing card and the write of the index, so that
\* both have read the same existing card and one write is lost.
C19_OverlappingStoresReadSameCard ==
    \A c1, c2 \in Callers :
        Overlapping(c1, c2) => storeCalls[c1].existing = storeCalls[c2].existing

\* C19, amended: two overlapping store calls for the same id never interleave
\* between the read of the existing card and the write of the index.  They
\* read different cards, each returns the version after the one it read, and
\* the index holds the later of the two: no update is lost.
C19_NoLostUpdate ==
    \A c1, c2 \in Callers :
        Overlapping(c1, c2) =>
            /\ storeCalls[c1].existing # storeCalls[c2].existing
            /\ storeCalls[c1].version # storeCalls[c2].version
            /\ storeCalls[c1].version = storeCalls[c1].existing + 1
            /\ cache[storeCalls[c1].id].version =
                   Max(storeCalls[c1].version, storeCalls[c2].version)

\* Two store calls for the same id overlap, the first of them having replaced
\* a card that was already there.
C19_Witness ==
    \E c1, c2 \in Callers :
        /\ Overlapping(c1, c2)
        /\ storeCalls[c1].existing > 0
        /\ storeCalls[c2].existing = storeCalls[c1].version

\* C21: for as long as a card id stays in the live index, its create_time is
\* the time of its first store: a store or update of an id that is in the
\* index leaves create_time as it was, and the store of an id that is not in
\* the index sets it to the time of that call.
C21_CreateTimePreserved ==
    [][\A id \in CardIds :
          id \in DOMAIN cache' =>
              cache'[id].create_time =
                  IF id \in DOMAIN cache THEN cache[id].create_time ELSE now]_vars

\* The second store of a card, later than the first: version 2,
\* previous_versions [1], and the create_time of the first store.
C21_Witness ==
    /\ ret.op = "store"
    /\ ret.id \in DOMAIN cache
    /\ cache[ret.id].version = 2
    /\ cache[ret.id].previous_versions = <<1>>
    /\ cache[ret.id].update_time = now
    /\ cache[ret.id].create_time < now

\* C22: once the snapshot of (id, v) has been written, getVersion(id, v)
\* keeps returning that same content, whatever is called afterwards: delete,
\* update, or a new store of the same id after the delete.
C22_SnapshotsNeverChange ==
    [][\A k \in DOMAIN versionFiles :
          /\ k \in DOMAIN versionFiles'
          /\ versionFiles'[k] = versionFiles[k]]_vars

\* A success rate <<n, d>> within [0, 1].
InUnit(rate) == rate[2] > 0 /\ 0 <= rate[1] /\ rate[1] <= rate[2]

\* C23: updateStrategyEffect(name, success) on an existing strategy counts
\* usageCount up by exactly 1 and sets successRate to
\* (oldRate * oldCount + (1 if success else 0)) / (oldCount + 1); a failure
\* never increases successRate, and successRate stays within [0, 1].
C23_EffectIsWeightedAverage ==
    [][/\ \A j \in 1..Len(strategies') : InUnit(strategies'[j].successRate)
       /\ \A name \in EffectedNames, success \in BOOLEAN :
             LET i == FindByName(strategies, name)
             IN  (ret'.op = "updateStrategyEffect" /\ i # 0
                      /\ Effect(name, success, MaxEffects)) =>
                 LET old == strategies[i]
                     new == strategies'[i]
                     delta == IF success THEN 1 ELSE 0
                 IN  /\ new.usageCount = old.usageCount + 1
                     /\ new.successRate[1] * (old.successRate[2] * (old.usageCount + 1)) =
                            (old.successRate[1] * old.usageCount + delta * old.successRate[2])
                                * new.successRate[2]
                     /\ ~success =>
                            new.successRate[1] * old.successRate[2]
                                <= old.successRate[1] * new.successRate[2]]_vars

\* Three updateStrategyEffect calls on a strategy: usageCount is 3 and the
\* last of them, on a rate strictly between 0 and 1, has just run.
C23_Witness ==
    /\ ret.op = "updateStrategyEffect"
    /\ \E j \in 1..Len(strategies) :
          /\ strategies[j].name = ret.name
          /\ strategies[j].usageCount = 3
          /\ strategies[j].successRate = <<1, 3>>

\* The strategies of strats[i]'s type that rank before it by successRate:
\* those of a higher rate, and those of the same rate that come earlier.
RankedBefore(strats, i) ==
    { k \in 1..Len(strats) :
        /\ strats[k].type = strats[i].type
        /\ \/ RateLess(strats[i].successRate, strats[k].successRate)
           \/ strats[k].successRate = strats[i].successRate /\ k < i }

\* strats[i] ranks within the top ceil(20%) (minimum 1) of its type, and its
\* successRate is above 0.3.
TopRanked(strats, i) ==
    /\ Cardinality(RankedBefore(strats, i)) <
           OptimalCount(Cardinality({ k \in 1..Len(strats) : strats[k].type = strats[i].type }))
    /\ 3 * strats[i].successRate[2] < 10 * strats[i].successRate[1]

\* C24: after iterateStrategies, a surviving strategy is optimal if and only
\* if it ranked within the top ceil(20%) (minimum 1) of its type group, as the
\* group stood when the call began, with a successRate above 0.3; no strategy
\* with successRate < 0.1 and usageCount > 10 remains; promoted, demoted and
\* removed name exactly the strategies whose flag was set, whose flag was
\* cleared, and which were deleted.
C24_IterateFlagsTopShare ==
    [][(ret'.op = "iterateStrategies" /\ IterateStrategies) =>
          LET ids == 1..Len(strategies)
              weak == { i \in ids : 10 * strategies[i].successRate[1]
                                       < strategies[i].successRate[2]
                                    /\ strategies[i].usageCount > 10 }
          IN  /\ \A j \in 1..Len(strategies') :
                    \E i \in ids \ weak :
                        /\ strategies[i].id = strategies'[j].id
                        /\ strategies'[j].isOptimal = TopRanked(strategies, i)
                        /\ strategies'[j] = [strategies[i] EXCEPT
                                                !.isOptimal = strategies'[j].isOptimal]
              /\ Len(strategies') = Cardinality(ids \ weak)
              /\ ret'.promoted = { strategies[i].name : i \in
                                     { k \in ids : ~strategies[k].isOptimal
                                                    /\ TopRanked(strategies, k) } }
              /\ ret'.demoted = { strategies[i].name : i \in
                                    { k \in ids : strategies[k].isOptimal
                                                   /\ ~TopRanked(strategies, k) } }
              /\ ret'.removed = { strategies[i].name : i \in weak }]_vars

\* iterateStrategies has promoted one strategy, demoted another, deleted a
\* third, and left a top-ranked strategy with a successRate of at most 0.3
\* unflagged.
C24_Witness ==
    /\ ret.op = "iterateStrategies"
    /\ ret.promoted # {}
    /\ ret.demoted # {}
    /\ ret.removed # {}
    /\ \E j \in 1..Len(strategies) :
          /\ RankedBefore(strategies, j) = {}
          /\ ~strategies[j].isOptimal

\* C25: updateMastery(id, delta) on an existing card sets mastery_score to
\* min(10, max(0, old + delta)), old being the score the call read, through
\* SemanticMemory.update, which makes the card's version one higher; it then
\* clears the cached profile, and identifyGaps, identifyOutdated and
\* getStrengths regenerate a cleared profile from the cards.  For an id that
\* does not exist it changes neither the store nor the cached profile.
C25_UpdateMasteryClampsAndInvalidates ==
    [][/\ \A c \in MasteryCallers :
             /\ (c \in DOMAIN masteryCalls /\ MasteryUpdate(c)) =>
                    LET call == masteryCalls[c]
                        id == call.id
                    IN  /\ call.knowledge = {} =>
                               /\ cache' = cache
                               /\ versionFiles' = versionFiles
                               /\ profile' = profile
                        /\ (call.knowledge # {} /\ id \in DOMAIN cache) =>
                               LET sum == (CHOOSE k \in call.knowledge : TRUE) + call.delta
                               IN  /\ cache'[id].mastery_score =
                                          IF sum > 10 THEN 10 ELSE IF sum < 0 THEN 0 ELSE sum
                                   /\ cache'[id].version = cache[id].version + 1
                                   /\ \A k \in (DOMAIN cache) \ {id} :
                                          k \in DOMAIN cache' /\ cache'[k] = cache[k]
             /\ (c \in DOMAIN masteryCalls /\ MasteryDone(c)) => profile'.null
       /\ (profile.null /\ ret'.op \in {"identifyGaps", "identifyOutdated", "getStrengths"}) =>
             profile' = ProfileOf(cache, now)]_vars

\* Two updateMastery("k1", 4) calls have completed on the card of score 4:
\* its score is 10, not 12, its version 3, and the profile is cleared.
C25_Witness ==
    /\ ret.op = "updateMastery"
    /\ ret.found
    /\ ret.id = "k1"
    /\ "k1" \in DOMAIN cache
    /\ cache["k1"].mastery_score = 10
    /\ cache["k1"].version = 3
    /\ profile.null

\* C26: periodicCheck returns, and records as active with status detected,
\* one timeliness deviation of severity medium for every outdated card, one
\* accuracy deviation of severity low for every card whose mastery_score is
\* below 6 (0 included), and nothing for any other card.
C26_PeriodicCheckFlagsEveryWeakCard ==
    ret.op = "periodicCheck" =>
        /\ ret.ids =
               { "time_dev_" \o id : id \in { c \in DOMAIN cache :
                                                 cache[c].timeliness = "outdated" } }
               \cup
               { "acc_dev_" \o id : id \in { c \in DOMAIN cache : cache[c].mastery_score < 6 } }
        /\ \A d \in ret.ids :
               /\ d \in DOMAIN activeDeviations
               /\ activeDeviations[d].status = "detected"
               /\ activeDeviations[d].severity =
                      IF activeDeviations[d].type = "timeliness" THEN "medium" ELSE "low"

\* Feedback that reports an error, in the words of either language.
ErrorLike(feedback) == isError(feedback) \/ "wrong" \in feedback

\* C27: detectFromUserFeedback returns a record of status detected, adds it
\* to the active deviations and logs one deviation_detected event for
\* error-like feedback such as "this is wrong"; for other feedback it returns
\* null and changes neither the active deviations nor the episodic memory.
C27_ErrorLikeFeedbackDetected ==
    [][\A feedback \in FeedbackTexts, relatedKnowledgeId \in RelatedIds :
          (ret'.op = "detectFromUserFeedback"
               /\ DetectFromUserFeedback(feedback, relatedKnowledgeId)) =>
              IF ErrorLike(feedback)
              THEN /\ ret'.id # ""
                   /\ ret'.id \in DOMAIN activeDeviations'
                   /\ activeDeviations'[ret'.id].status = "detected"
                   /\ Len(memoryCache') = Len(memoryCache) + 1
                   /\ memoryCache'[Len(memoryCache')].event_type = "deviation_detected"
              ELSE /\ ret'.id = ""
                   /\ activeDeviations' = activeDeviations
                   /\ memoryCache' = memoryCache]_vars

\* C28: multiSourceValidation(id, newContent) compares at most 5 sources, the
\* new content is always one of them, whatever the number of sources the card
\* has (5 or more included) and for a missing card, and the list is never
\* empty, so that deviationRate is defined.
C28_NewContentAmongSources ==
    ret.op = "multiSourceValidation" =>
        /\ Len(ret.sources) <= 5
        /\ Len(ret.sources) >= 1
        /\ ret.deviationRate[2] # 0
        /\ \E i \in 1..Len(ret.sources) :
               /\ ret.sources[i].source = "new_learning_result"
               /\ ret.sources[i].content = ret.newContent

\* The step types generatePath selects for a depth.
SelectedTypes(depth) ==
    (IF depth \in {"basic", "advanced"} THEN {"brewapi_basic"} ELSE {})
    \cup (IF depth \in {"advanced", "practical"} THEN {"browser_documentation"} ELSE {})
    \cup (IF depth = "practical" THEN {"browser_practical"} ELSE {})

PriorityRank(priority) == IF priority = "high" THEN 0 ELSE IF priority = "medium" THEN 1 ELSE 2

\* The place of a step type in the order generatePath pushes the steps.
PushRank(type) ==
    IF type = "brewapi_basic" THEN 1
    ELSE IF type = "browser_documentation" THEN 2
    ELSE IF type = "browser_practical" THEN 3 ELSE 4

\* C29: generatePath(demand) returns exactly the steps demand.depth selects
\* plus exactly one validation step, all high steps before all medium before
\* all low, steps of equal priority in the order they were pushed, and the
\* validation step's previousSteps lists the ids of all other steps.
C29_PathStepsSelectedAndOrdered ==
    ret.op = "generatePath" =>
        LET steps == path.steps
            ids == 1..Len(steps)
        IN  /\ { steps[i].type : i \in ids } = SelectedTypes(ret.depth) \cup {"validation"}
            /\ Len(steps) = Cardinality(SelectedTypes(ret.depth)) + 1
            /\ \A i, j \in ids :
                   i < j =>
                       /\ PriorityRank(steps[i].priority) <= PriorityRank(steps[j].priority)
                       /\ steps[i].priority = steps[j].priority =>
                              PushRank(steps[i].type) < PushRank(steps[j].type)
                       /\ steps[i].id # steps[j].id
            /\ \A i \in ids :
                   steps[i].type = "validation" =>
                       /\ { steps[i].previousSteps[k] : k \in 1..Len(steps[i].previousSteps) }
                              = { steps[j].id : j \in ids \ {i} }
                       /\ Len(steps[i].previousSteps) = Len(steps) - 1

\* generatePath has returned the path of a practical demand: the validation
\* step, pushed last, comes first, before the two medium steps.
C29_Witness ==
    /\ ret.op = "generatePath"
    /\ ret.depth = "practical"
    /\ Len(path.steps) = 3
    /\ path.steps[1].type = "validation"
    /\ path.steps[2].type = "browser_documentation"
    /\ path.steps[3].type = "browser_practical"

\* The retention weight of a card, times 100: 0.5 * mastery_score, plus 0.2
\* for latest and 0.1 for valid, plus min(0.3, 0.01 * usageCount).
RetentionWeight(card) ==
    50 * card.mastery_score
    + (IF card.timeliness = "latest" THEN 20 ELSE IF card.timeliness = "valid" THEN 10 ELSE 0)
    + (IF card.usageCount > 30 THEN 30 ELSE card.usageCount)

\* C30: prune(threshold) deletes exactly the cards whose retention weight is
\* below threshold and that are not protected (mastery_score >= 8 in a domain
\* other than "general"), returns exactly their ids, and leaves every other
\* live card present and unchanged.
C30_PruneDeletesExactlyTheWeak ==
    [][\A threshold \in Thresholds :
          (ret'.op = "prune" /\ SemPrune(threshold)) =>
              LET weak == { id \in DOMAIN cache :
                              /\ RetentionWeight(cache[id]) < threshold
                              /\ ~IsCore(cache[id]) }
              IN  /\ ret'.pruned = weak
                  /\ DOMAIN cache' = (DOMAIN cache) \ weak
                  /\ \A id \in DOMAIN cache' : cache'[id] = cache[id]]_vars

\* prune has deleted one card and left another whose retention weight equals
\* the threshold.
C30_Witness ==
    /\ ret.op = "prune"
    /\ ret.pruned # {}
    /\ \E id \in DOMAIN cache :
          /\ ~IsCore(cache[id])
          /\ RetentionWeight(cache[id]) = ret.threshold

----------------------------------------------------------------------------
(* generateCapabilityProfile over domains that hold several cards. *)

GapScores == {2, 6, 9}

\* The index.json loadIndex finds: two cards of the domain 'ai' and one
\* card without a domain.
GapsIndex(s1, s2) ==
    [ k \in {"k1", "k2", "k3"} |->
        IF k = "k1"
        THEN Indexed(k, [domain |-> "ai", mastery_score |-> s1, timeliness |-> "latest",
                         usageCount |-> 0], 1)
        ELSE IF k = "k2"
        THEN Indexed(k, [domain |-> "ai", mastery_score |-> s2, timeliness |-> "outdated",
                         usageCount |-> 0], 2)
        ELSE Indexed(k, [domain |-> "", mastery_score |-> 8, timeliness |-> "latest",
                         usageCount |-> 0], 3) ]

InitGaps ==
    /\ now = StartTime
    /\ maxVersions = DefaultMaxVersions
    /\ enableVersioning = FALSE
    /\ \E s1 \in GapScores, s2 \in GapScores : cache = GapsIndex(s1, s2)
    /\ versionFiles = <<>>
    /\ strategies = <<>>
    /\ memoryCache = <<>>
    /\ activeDeviations = <<>>
    /\ path = NoPath
    /\ exec = Idle
    /\ InitRest
    /\ ret = [op |-> "new", at |-> now, null |-> TRUE, generatedAt |-> 0, result |-> {}]

NextGaps ==
    \/ GenerateCapabilityProfile
    \/ IdentifyGaps
    \/ \E delta \in Deltas : UpdateMastery("k1", delta)

SpecGaps == InitGaps /\ [][NextGaps]_vars

\* The ids of the cards that belong to a domain whose average mastery_score
\* is below 6.
CardsOfWeakDomains(cards) ==
    { id \in DOMAIN cards :
        LET same == { other \in DOMAIN cards :
                        DomainOf(cards[other]) = DomainOf(cards[id]) }
        IN  TotalScore(cards, same) < 6 * Cardinality(same) }

\* C31: in the profile generateCapabilityProfile produces, gaps is exactly the
\* set of ids of the cards of the domains whose average mastery_score is
\* below 6: every card of such a domain and no card of another domain.
C31_GapsAreCardsOfWeakDomains ==
    ret.op = "generateCapabilityProfile" => profile.gaps = CardsOfWeakDomains(cache)

----------------------------------------------------------------------------
(* cleanupLearningProgress among entries of every status and stored items. *)

CleanupUpdates == { [status |-> "in_progress"], [status |-> "validating"] }

NextCleanup ==
    \/ \E demandId \in DemandIds : CreateLearningProgress(demandId, 1)
    \/ \E demandId \in DemandIds, updates \in CleanupUpdates :
          UpdateLearningProgress(demandId, updates)
    \/ \E demandId \in DemandIds : CompleteStep(demandId, FALSE)
    \/ \E demandId \in DemandIds : FailLearning(demandId, TRUE)
    \/ \E suffix \in Suffixes : WmStore("raw_data", DefaultTTL, suffix)
    \/ CleanupLearningProgress

SpecCleanup == InitWorking /\ [][NextCleanup]_vars

\* C32: cleanupLearningProgress removes exactly the entries whose status is
\* completed or failed, returns their count, and leaves every pending,
\* in_progress and validating entry and all items unchanged.
C32_CleanupRemovesExactlyTerminal ==
    [][CleanupLearningProgress =>
          LET terminal == { d \in DOMAIN learningProgress :
                              learningProgress[d].status = "completed"
                              \/ learningProgress[d].status = "failed" }
          IN  /\ DOMAIN learningProgress' = (DOMAIN learningProgress) \ terminal
              /\ \A d \in DOMAIN learningProgress' :
                    learningProgress'[d] = learningProgress[d]
              /\ ret'.count = Cardinality(terminal)
              /\ items' = items]_vars

\* cleanupLearningProgress has removed an entry and left a validating one
\* next to a stored item.
C32_Witness ==
    /\ ret.op = "cleanupLearningProgress"
    /\ ret.count > 0
    /\ \E d \in DOMAIN learningProgress : learningProgress[d].status = "validating"
    /\ items # <<>>

\* C33: storeStrategy with a name not yet present never replaces or removes
\* an existing strategy: every name stored before is still returned by
\* getStrategy afterwards, with its fields unchanged, whatever the clock reads.
C33_NewNameKeepsOthers ==
    [][\A name \in EffectedNames, content \in Contents :
          (FindByName(strategies, name) = 0 /\ StoreStrategy(name, content)) =>
              \A i \in 1..Len(strategies) :
                 LET j == FindByName(strategies', strategies[i].name)
                 IN  /\ j # 0
                     /\ strategies'[j] = strategies[i]]_vars

\* d added to s and kept within 0..10.
Clamped(s, d) == IF s + d > 10 THEN 10 ELSE IF s + d < 0 THEN 0 ELSE s + d

\* C35: overlapping updateMastery calls on one card are serializable: when
\* two calls that both read the card before either wrote it have written, the
\* mastery_score is what running them one after the other, in one order or
\* the other, gives, and the version is two above the one they read (the
\* first write made it one above, the second makes it two).
C35_OverlappingMasterySerializable ==
    [][\A c \in MasteryCallers, o \in MasteryCallers :
          ( /\ c # o
            /\ c \in DOMAIN masteryCalls
            /\ o \in DOMAIN masteryCalls
            /\ masteryCalls[c].pc = "get"
            /\ masteryCalls[o].pc = "updated"
            /\ masteryCalls[c].id = masteryCalls[o].id
            /\ masteryCalls[c].id \in DOMAIN cache
            /\ masteryCalls[c].knowledge # {}
            /\ masteryCalls[c].knowledge = masteryCalls[o].knowledge
            /\ MasteryUpdate(c) ) =>
              LET id == masteryCalls[c].id
                  s == CHOOSE k \in masteryCalls[c].knowledge : TRUE
                  d1 == masteryCalls[o].delta
                  d2 == masteryCalls[c].delta
              IN  /\ cache'[id].mastery_score \in
                         { Clamped(Clamped(s, d1), d2), Clamped(Clamped(s, d2), d1) }
                  /\ cache'[id].version = cache[id].version + 1]_vars

\* C37: executePath leaves nothing in progress: when it has returned, the
\* path's status is 'completed' or 'failed' and every step's status is one of
\* pending, completed, failed or skipped.
C37_NothingLeftInProgress ==
    (ret.op = "executePath" /\ exec.pc = "returned") =>
        /\ path.status \in {"completed", "failed"}
        /\ \A i \in 1..Len(path.steps) :
              path.steps[i].status \in {"pending", "completed", "failed", "skipped"}

----------------------------------------------------------------------------
(* ResonixCognitionEngine: start, stop and the interval timers. *)

StartCallers == {"a1", "a2"}

notEngine == <<semConfig, cache, versionFiles, memoryCache, activeDeviations, path, exec,
               working, episodic, storeCalls, masteryCalls, flows, learner>>

\* What startPeriodicTasks pushes to this.intervals, in its order.
PeriodicTasks(enableAutonomousLearning) ==
    <<"profile">>
    \o (IF enableAutonomousLearning THEN <<"learning">> ELSE <<>>)
    \o <<"prune", "iterate">>

\* start(), up to its first await: it returns at once on a running engine,
\* else it calls generateCapabilityProfile and awaits it.
StartCall(c) ==
    /\ c \notin DOMAIN engine.starts
    /\ IF engine.running
       THEN /\ ret' = [op |-> "start", started |-> FALSE]
            /\ UNCHANGED engine
       ELSE /\ engine' = [engine EXCEPT !.starts = Put(@, c, "profile")]
            /\ ret' = [op |-> "start:called"]
    /\ UNCHANGED <<now, strategies, profile, notEngine>>

\* generateCapabilityProfile has run; start calls generateDemandList and
\* awaits it.
StartProfiled(c) ==
    /\ c \in DOMAIN engine.starts
    /\ engine.starts[c] = "profile"
    /\ Generated
    /\ engine' = [engine EXCEPT !.starts[c] = "demands"]
    /\ ret' = [op |-> "start:profiled"]
    /\ UNCHANGED <<now, notEngine>>

\* generateDemandList has returned: startPeriodicTasks(), this.running = true.
StartDone(c) ==
    /\ c \in DOMAIN engine.starts
    /\ engine.starts[c] = "demands"
    /\ engine' = [engine EXCEPT
                     !.intervals = @ \o PeriodicTasks(engine.enableAutonomousLearning),
                     !.running = TRUE,
                     !.starts = Remove(@, {c})]
    /\ ret' = [op |-> "start", started |-> TRUE]
    /\ UNCHANGED <<now, strategies, profile, notEngine>>

\* stop(): clearInterval for every interval, this.intervals = [],
\* this.running = false.
Stop ==
    /\ engine' = [engine EXCEPT !.intervals = <<>>, !.running = FALSE]
    /\ ret' = [op |-> "stop"]
    /\ UNCHANGED <<now, strategies, profile, notEngine>>

\* A timer of the weekly task fires: its callback is iterateStrategies.
IterateTimerFires ==
    /\ \E i \in 1..Len(engine.intervals) : engine.intervals[i] = "iterate"
    /\ IterateStrategies

\* new ResonixCognitionEngine(config) over the index of InitPerception.
InitEngine ==
    /\ now = StartTime
    /\ maxVersions = DefaultMaxVersions
    /\ enableVersioning = FALSE
    /\ cache = PerceptionIndex
    /\ versionFiles = <<>>
    /\ strategies = <<>>
    /\ memoryCache = <<>>
    /\ activeDeviations = <<>>
    /\ path = NoPath
    /\ exec = Idle
    /\ items = <<>>
    /\ learningProgress = <<>>
    /\ profile = NoProfile
    /\ dayFiles = <<>>
    /\ archive = <<>>
    /\ tasks = <<>>
    /\ loading = NotLoading
    /\ storeCalls = <<>>
    /\ masteryCalls = <<>>
    /\ \E enabled \in BOOLEAN : engine = [NoEngine EXCEPT !.enableAutonomousLearning = enabled]
    /\ flows = <<>>
    /\ learner = NoLearner
    /\ ret = [op |-> "new"]

NextEngine ==
    \/ \E c \in StartCallers : StartCall(c)
    \/ \E c \in StartCallers : StartProfiled(c)
    \/ \E c \in StartCallers : StartDone(c)
    \/ Stop
    \/ IterateTimerFires
    \/ Tick

SpecEngine == InitEngine /\ [][NextEngine]_vars

\* How many timers of the task are scheduled.
TimersOf(task) ==
    Cardinality({ i \in 1..Len(engine.intervals) : engine.intervals[i] = task })

\* C34: whenever no start or stop call is in flight, a running engine has
\* exactly one interval timer per periodic task and an engine that is not
\* running has none.
C34_OneTimerPerTask ==
    engine.starts = <<>> =>
        IF engine.running
        THEN /\ TimersOf("profile") = 1
             /\ TimersOf("prune") = 1
             /\ TimersOf("iterate") = 1
             /\ TimersOf("learning") = IF engine.enableAutonomousLearning THEN 1 ELSE 0
        ELSE engine.intervals = <<>>

----------------------------------------------------------------------------
(* ResonixCognitionEngine.performAutonomousLearning, call by call. The    *)
(* demands are what DemandRecognition.getHighPriorityDemands returns.     *)

FlowCallers == {"f1"}

Demand(id, topic) == [id |-> id, topic |-> topic, depth |-> "basic"]

\* What getHighPriorityDemands(60) may return: nothing, one demand, or more
\* demands than one invocation takes.
DemandLists ==
    { <<>>,
      <<Demand("d1", "react")>>,
      <<Demand("d1", "react"), Demand("d2", "cooking"), Demand("d3", "vue"),
        Demand("d4", "rust")>> }

notFlow == <<semConfig, strategies, memoryCache, activeDeviations, items, episodic, storeCalls,
             masteryCalls, engine, learner>>

\* The entries cleanupLearningProgress() leaves.
Cleaned(progress) ==
    Remove(progress, { d \in DOMAIN progress : IsTerminal(progress[d]) })

\* createLearningProgress(demand.id, 1)
Created(progress, demandId) ==
    Put(progress, demandId,
        [demandId |-> demandId, currentStep |-> 0, totalSteps |-> 1, status |-> "pending",
         data |-> {}])

\* demands.slice(0, 3)
Taken(demands) == SubSeq(demands, 1, Min(3, Len(demands)))

\* The call is not one processUserFeedback made.
NoFeedback == [feedback |-> {}, related |-> "", deviation |-> "", nested |-> FALSE]

\* /错误|不对/ ? -1 : /好|棒/ ? 1 : 0, in the keywords of Feedbacks.
MasteryDelta(feedback) ==
    IF Matches(feedback, {"cuowu", "budui", "wanquancuowu"}) THEN -1
    ELSE IF Matches(feedback, {"hao", "bang"}) THEN 1
    ELSE 0

\* processUserFeedback after its `if (deviation)` block: it awaits
\* updateMastery(relatedKnowledgeId, delta) for a related card and a delta
\* other than 0, else it returns.
AwaitsMastery(fb) == fb.related # "" /\ MasteryDelta(fb.feedback) # 0

\* performAutonomousLearning(), up to `await getHighPriorityDemands(60)`.
AutoCall(c) ==
    /\ c \notin DOMAIN flows
    /\ exec.pc \in {"idle", "returned"}
    /\ flows' = Put(flows, c, [pc |-> "demands", demands |-> <<>>, i |-> 0, knowledgeId |-> "",
                             fb |-> NoFeedback])
    /\ ret' = [op |-> "performAutonomousLearning:called"]
    /\ UNCHANGED <<now, cache, versionFiles, profile, path, exec, learningProgress, notFlow>>

\* performAutonomousLearning returns, to its caller or to the
\* processUserFeedback that awaits it; each caller makes one call.
AutoReturns(c, processed) ==
    /\ flows' = [flows EXCEPT ![c].pc = IF flows[c].fb.nested /\ AwaitsMastery(flows[c].fb)
                                         THEN "fbMastery" ELSE "returned"]
    /\ ret' = [op |-> "performAutonomousLearning", processed |-> processed]

\* getHighPriorityDemands has returned `demands`: return if there are none,
\* else createLearningProgress for the first and `await generatePath(demand)`.
AutoDemands(c, demands) ==
    /\ c \in DOMAIN flows
    /\ flows[c].pc = "demands"
    /\ IF demands = <<>>
       THEN /\ AutoReturns(c, <<>>)
            /\ UNCHANGED learningProgress
       ELSE /\ learningProgress' = Created(learningProgress, demands[1].id)
            /\ flows' = [flows EXCEPT ![c].pc = "generate", ![c].demands = Taken(demands),
                                      ![c].i = 1]
            /\ ret' = [op |-> "performAutonomousLearning:demands"]
    /\ UNCHANGED <<now, cache, versionFiles, profile, path, exec, notFlow>>

\* generatePath has returned the path; executePath(path) runs up to its loop.
AutoGenerated(c) ==
    /\ c \in DOMAIN flows
    /\ flows[c].pc = "generate"
    /\ LET demand == flows[c].demands[flows[c].i]
       IN  path' = [topic |-> demand.topic,
                    steps |-> SortByPriority(PushedSteps(demand.id, demand.depth)),
                    status |-> "in_progress"]
    /\ exec' = [pc |-> "loop", idx |-> 1, broke |-> FALSE, ran |-> {}]
    /\ flows' = [flows EXCEPT ![c].pc = "execute"]
    /\ ret' = [op |-> "executePath:called"]
    /\ UNCHANGED <<now, cache, versionFiles, profile, learningProgress, notFlow>>

\* The end of one round of the loop over the demands:
\* cleanupLearningProgress(), then the next demand's createLearningProgress
\* and generatePath, or the return after the last demand.
AutoRoundEnds(c) ==
    LET flow == flows[c]
        ids == [k \in 1..Len(flow.demands) |-> flow.demands[k].id]
    IN  IF flow.i < Len(flow.demands)
        THEN /\ learningProgress' =
                    Created(Cleaned(learningProgress), flow.demands[flow.i + 1].id)
             /\ flows' = [flows EXCEPT ![c].pc = "generate", ![c].i = flow.i + 1]
             /\ ret' = [op |-> "performAutonomousLearning:next"]
        ELSE /\ learningProgress' = Cleaned(learningProgress)
             /\ AutoReturns(c, ids)

\* executePath has returned: on success `await updateMastery(knowledgeId, 2)`
\* (up to its get), else the round ends.
AutoExecuted(c) ==
    /\ c \in DOMAIN flows
    /\ flows[c].pc = "execute"
    /\ exec.pc = "returned"
    /\ ret.op = "executePath"
    /\ IF ret.success
       THEN /\ flows' = [flows EXCEPT ![c].pc = "mastery", ![c].knowledgeId = ret.knowledgeId]
            /\ ret' = [op |-> "updateMastery:called", id |-> ret.knowledgeId]
            /\ UNCHANGED learningProgress
       ELSE AutoRoundEnds(c)
    /\ UNCHANGED <<now, cache, versionFiles, profile, path, exec, notFlow>>

\* updateMastery has run; `await markDemandProcessed(demand.id)`.
AutoMastered(c) ==
    /\ c \in DOMAIN flows
    /\ flows[c].pc = "mastery"
    /\ LET id == flows[c].knowledgeId
       IN  IF id \in DOMAIN cache
           THEN /\ cache[id].version < MaxVersion
                /\ versionFiles' = FilesAfterUpdate(id)
                /\ cache' = Put(cache, id,
                                UpdatedCard(cache[id],
                                    [mastery_score |-> NewScore(cache[id].mastery_score, 2),
                                     update_time |-> now]))
                /\ profile' = NoProfile
           ELSE UNCHANGED <<cache, versionFiles, profile>>
    /\ flows' = [flows EXCEPT ![c].pc = "mark"]
    /\ ret' = [op |-> "updateMastery", id |-> flows[c].knowledgeId]
    /\ UNCHANGED <<now, path, exec, learningProgress, notFlow>>

\* markDemandProcessed has returned: the round ends.
AutoMarked(c) ==
    /\ c \in DOMAIN flows
    /\ flows[c].pc = "mark"
    /\ AutoRoundEnds(c)
    /\ UNCHANGED <<now, cache, versionFiles, profile, path, exec, notFlow>>

NextAuto ==
    \/ \E c \in FlowCallers : AutoCall(c)
    \/ \E c \in FlowCallers, demands \in DemandLists : AutoDemands(c, demands)
    \/ \E c \in FlowCallers : AutoGenerated(c)
    \/ \E ok \in BOOLEAN, fallbackOk \in BOOLEAN : RunStep(ok, fallbackOk)
    \/ LoopEnd
    \/ PathReturn
    \/ \E c \in FlowCallers : AutoExecuted(c)
    \/ \E c \in FlowCallers : AutoMastered(c)
    \/ \E c \in FlowCallers : AutoMarked(c)

SpecAuto == InitPath /\ [][NextAuto]_vars

\* C36: when performAutonomousLearning returns, WorkingMemory holds no
\* learning-progress entry for any demand the invocation processed, whether
\* its path succeeded or failed, and it processed at most 3 demands.
C36_NoProgressLeftBehind ==
    ret.op = "performAutonomousLearning" =>
        /\ Len(ret.processed) <= 3
        /\ \A k \in 1..Len(ret.processed) : ret.processed[k] \notin DOMAIN learningProgress

----------------------------------------------------------------------------
(* ResonixCognitionEngine.processUserFeedback, call by call. *)

FlowFeedbacks == { {"cuowu"}, {"youwenti"}, {"hao"}, {"xiexie"} }

notFeedback == <<semConfig, strategies, items, learningProgress, episodic, storeCalls,
                 masteryCalls, engine, learner, path, exec>>

\* triggerCorrectionLearning leaving the status as it is.
StatusKept(deviations, deviationId) == deviations

\* deviation.status = 'verifying'
Verifying(deviations, deviationId) ==
    [deviations EXCEPT ![deviationId].status = "verifying"]

\* processUserFeedback(feedback, relatedKnowledgeId), up to the await of
\* episodicMemory.log: the user_feedback event is pushed.
FeedbackCall(c, feedback, relatedKnowledgeId) ==
    /\ c \notin DOMAIN flows
    /\ memoryCache' = Logged(memoryCache, "user_feedback")
    /\ flows' = Put(flows, c,
                    [pc |-> "logged", demands |-> <<>>, i |-> 0, knowledgeId |-> "",
                     fb |-> [feedback |-> feedback, related |-> relatedKnowledgeId,
                             deviation |-> "", nested |-> TRUE]])
    /\ ret' = [op |-> "processUserFeedback:called"]
    /\ UNCHANGED <<now, cache, versionFiles, profile, activeDeviations, notFeedback>>

\* The end of processUserFeedback: the await of updateMastery or the return.
FeedbackTail(c) ==
    IF AwaitsMastery(flows[c].fb)
    THEN /\ flows' = [flows EXCEPT ![c].pc = "fbMastery"]
         /\ ret' = [op |-> "updateMastery:called", id |-> flows[c].fb.related]
    ELSE /\ flows' = [flows EXCEPT ![c].pc = "returned"]
         /\ ret' = [op |-> "processUserFeedback"]

\* log has returned; detectFromUserFeedback runs up to its log (or returns
\* null at once, and processUserFeedback goes on to its end).
FeedbackDetect(c) ==
    /\ c \in DOMAIN flows
    /\ flows[c].pc = "logged"
    /\ LET fb == flows[c].fb
           deviation ==
               [ id |-> "dev_" \o ToString(now),
                 knowledgeId |-> IF fb.related # "" THEN fb.related ELSE "unknown",
                 type |-> classifyDeviation(fb.feedback),
                 severity |-> assessSeverity(fb.feedback),
                 detectedAt |-> now,
                 status |-> "detected" ]
       IN  IF ~isError(fb.feedback)
           THEN /\ FeedbackTail(c)
                /\ UNCHANGED <<activeDeviations, memoryCache>>
           ELSE /\ activeDeviations' = Put(activeDeviations, deviation.id, deviation)
                /\ memoryCache' = Logged(memoryCache, "deviation_detected")
                /\ flows' = [flows EXCEPT ![c].pc = "detected",
                                          ![c].fb.deviation = deviation.id]
                /\ ret' = [op |-> "detectFromUserFeedback", id |-> deviation.id]
    /\ UNCHANGED <<now, cache, versionFiles, profile, notFeedback>>

\* detectFromUserFeedback has returned the deviation;
\* triggerCorrectionLearning(deviation.id) runs up to its log.
FeedbackTrigger(c) ==
    /\ c \in DOMAIN flows
    /\ flows[c].pc = "detected"
    /\ LET deviationId == flows[c].fb.deviation
       IN  IF deviationId \in DOMAIN activeDeviations
           THEN /\ activeDeviations' = Verifying(activeDeviations, deviationId)
                /\ memoryCache' = Logged(memoryCache, "correction_learning_triggered")
           ELSE UNCHANGED <<activeDeviations, memoryCache>>
    /\ flows' = [flows EXCEPT ![c].pc = "triggered"]
    /\ ret' = [op |-> "triggerCorrectionLearning", id |-> flows[c].fb.deviation]
    /\ UNCHANGED <<now, cache, versionFiles, profile, notFeedback>>

\* triggerCorrectionLearning has returned: performAutonomousLearning() is
\* called if autonomous learning is enabled, else the end follows.
FeedbackLearns(c) ==
    /\ c \in DOMAIN flows
    /\ flows[c].pc = "triggered"
    /\ IF engine.enableAutonomousLearning
       THEN /\ flows' = [flows EXCEPT ![c].pc = "demands"]
            /\ ret' = [op |-> "performAutonomousLearning:called"]
       ELSE FeedbackTail(c)
    /\ UNCHANGED <<now, cache, versionFiles, profile, activeDeviations, memoryCache,
                   notFeedback>>

\* updateMastery(relatedKnowledgeId, delta) has run: processUserFeedback
\* returns.
FeedbackMastered(c) ==
    /\ c \in DOMAIN flows
    /\ flows[c].pc = "fbMastery"
    /\ LET id == flows[c].fb.related
       IN  IF id \in DOMAIN cache
           THEN /\ cache[id].version < MaxVersion
                /\ versionFiles' = FilesAfterUpdate(id)
                /\ cache' = Put(cache, id,
                                UpdatedCard(cache[id],
                                    [mastery_score |->
                                         NewScore(cache[id].mastery_score,
                                                  MasteryDelta(flows[c].fb.feedback)),
                                     update_time |-> now]))
                /\ profile' = NoProfile
           ELSE UNCHANGED <<cache, versionFiles, profile>>
    /\ flows' = [flows EXCEPT ![c].pc = "returned"]
    /\ ret' = [op |-> "processUserFeedback"]
    /\ UNCHANGED <<now, activeDeviations, memoryCache, notFeedback>>

NextUserFeedback ==
    \/ \E c \in FlowCallers, feedback \in FlowFeedbacks, relatedKnowledgeId \in RelatedIds :
          FeedbackCall(c, feedback, relatedKnowledgeId)
    \/ \E c \in FlowCallers : FeedbackDetect(c)
    \/ \E c \in FlowCallers : FeedbackTrigger(c)
    \/ \E c \in FlowCallers : FeedbackLearns(c)
    \/ \E c \in FlowCallers, demands \in DemandLists : AutoDemands(c, demands)
    \/ \E c \in FlowCallers : AutoGenerated(c)
    \/ \E ok \in BOOLEAN, fallbackOk \in BOOLEAN : RunStep(ok, fallbackOk)
    \/ LoopEnd
    \/ PathReturn
    \/ \E c \in FlowCallers : AutoExecuted(c)
    \/ \E c \in FlowCallers : AutoMastered(c)
    \/ \E c \in FlowCallers : AutoMarked(c)
    \/ \E c \in FlowCallers : FeedbackMastered(c)
    \/ Tick

SpecUserFeedback == InitEngine /\ [][NextUserFeedback]_vars

\* The types of the events of memoryCache that processUserFeedback and the
\* DeviationCorrection calls it makes log, oldest first.
FeedbackEvents ==
    LET logged == SelectSeq(memoryCache,
                            LAMBDA e : e.event_type \in {"user_feedback", "deviation_detected",
                                                         "correction_learning_triggered"})
    IN  [k \in 1..Len(logged) |-> logged[k].event_type]

\* The events are logged in order and the deviation is being verified.
TriggeredInOrder(deviationId) ==
    /\ FeedbackEvents =
          <<"user_feedback", "deviation_detected", "correction_learning_triggered">>
    /\ activeDeviations[deviationId].status = "verifying"

\* C38: for feedback in which a deviation is detected, processUserFeedback
\* logs user_feedback, then deviation_detected, then
\* correction_learning_triggered, and the deviation's status is 'verifying'
\* before the immediate performAutonomousLearning run starts and before the
\* related card's mastery is decremented.
C38_FeedbackOrder ==
    [][\A c \in FlowCallers :
          (c \in DOMAIN flows /\ flows[c].fb.deviation # "") =>
              /\ (flows[c].pc # "demands" /\ flows'[c].pc = "demands") =>
                     TriggeredInOrder(flows[c].fb.deviation)
              /\ (\E id \in DOMAIN cache :
                     cache'[id].mastery_score < cache[id].mastery_score) =>
                     TriggeredInOrder(flows[c].fb.deviation)
              /\ \E n \in 0..3 :
                     FeedbackEvents =
                        SubSeq(<<"user_feedback", "deviation_detected",
                                 "correction_learning_triggered">>, 1, n)]_vars

\* processUserFeedback has returned after a detected deviation: the learning
\* run took a demand and the related card's mastery went from 4 to 3.
C38_Witness ==
    /\ ret.op = "processUserFeedback"
    /\ "f1" \in DOMAIN flows
    /\ flows["f1"].fb.deviation # ""
    /\ flows["f1"].demands # <<>>
    /\ cache["k1"].mastery_score = 3
    /\ activeDeviations[flows["f1"].fb.deviation].status = "verifying"

----------------------------------------------------------------------------
(* AutonomousLearningEngine.learn, call by call. *)

\* The topics learn is called with; '' is the empty string.
LearnTopics == {"t1", "t2", ""}

notLearner == <<now, semConfig, cache, versionFiles, strategies, memoryCache, activeDeviations,
                path, exec, working, profile, episodic, storeCalls, masteryCalls, engine,
                flows>>

\* The calls learn awaits, in order.
Pipeline == <<"findSources", "extractContent", "synthesizeKnowledge", "add", "reflect">>

\* A learn that takes the engine for idle whatever isLearning says.
NeverBusy(l) == FALSE

\* if (this.isLearning)
Busy(l) == l.isLearning

\* this.isLearning = true and the try block up to `await findSources(topic)`.
Begun(l, topic) ==
    [l EXCEPT !.isLearning = TRUE,
              !.runs = Put(@, Len(l.started) + 1, [topic |-> topic, at |-> 1]),
              !.started = Append(@, topic)]

\* learn(topic): queued on a busy engine, else the pipeline begins.
Learn(topic) ==
    /\ learner.calls < MaxLearns
    /\ IF Busy(learner)
       THEN /\ learner' = [learner EXCEPT !.learningQueue = Append(@, topic),
                                          !.calls = @ + 1]
            /\ ret' = [op |-> "learn", topic |-> topic, content |-> "Queued for learning",
                       quality |-> 0]
       ELSE /\ learner' = [Begun(learner, topic) EXCEPT !.calls = @ + 1]
            /\ ret' = [op |-> "learn:called", topic |-> topic]
    /\ UNCHANGED notLearner

\* The finally block of run r: isLearning = false, and with a queued topic
\* `next = learningQueue.shift(); if (next) this.learn(next)`; the learn it
\* calls finds isLearning false and begins at once.
Finally(l, r) ==
    LET idle == [l EXCEPT !.isLearning = FALSE, !.runs = Remove(@, {r})]
    IN  IF idle.learningQueue = <<>>
        THEN idle
        ELSE LET next == Head(idle.learningQueue)
                 shifted == [idle EXCEPT !.learningQueue = Tail(@)]
             IN  IF next = "" THEN shifted ELSE Begun(shifted, next)

\* The call run r awaits returns (ok), or it throws: the run goes on to its
\* next await (the topic is in the knowledge base once add has returned), or
\* it returns from learn through the finally block.
LearnResume(r, ok) ==
    /\ r \in DOMAIN learner.runs
    /\ LET run == learner.runs[r]
           added == IF ok /\ Pipeline[run.at] = "add"
                    THEN [learner EXCEPT !.knowledgeBase = Append(@, run.topic)]
                    ELSE learner
       IN  IF ok /\ run.at < Len(Pipeline)
           THEN /\ learner' = [added EXCEPT !.runs[r].at = run.at + 1]
                /\ ret' = [op |-> "learn:resumed", topic |-> run.topic]
           ELSE /\ learner' = Finally(added, r)
                /\ ret' = [op |-> "learn", topic |-> run.topic,
                           content |-> IF ok THEN "synthesized" ELSE "thrown",
                           quality |-> IF ok THEN 1 ELSE 0]
    /\ UNCHANGED notLearner

RunIds == 1..MaxLearns

NextLearn ==
    \/ \E topic \in LearnTopics : Learn(topic)
    \/ \E r \in RunIds, ok \in BOOLEAN : LearnResume(r, ok)

SpecLearn == InitPath /\ [][NextLearn]_vars

\* Each learn run in progress eventually finishes: the call it awaits
\* eventually returns or throws.
SpecLearnFair ==
    SpecLearn /\ \A r \in RunIds : WF_vars(\E ok \in BOOLEAN : LearnResume(r, ok))

\* C39: at most one learn pipeline is in progress at any time, and a learn
\* call arriving while one is in progress only appends its topic to the
\* queue, returns the 'Queued for learning' placeholder with quality 0 and
\* adds nothing to the knowledge base.
C39_LearnMutuallyExclusive ==
    [][/\ Cardinality(DOMAIN learner.runs) <= 1
       /\ \A topic \in LearnTopics :
             (learner.runs # <<>> /\ Learn(topic)) =>
                 /\ learner'.learningQueue = Append(learner.learningQueue, topic)
                 /\ learner'.runs = learner.runs
                 /\ learner'.knowledgeBase = learner.knowledgeBase
                 /\ ret'.content = "Queued for learning"
                 /\ ret'.quality = 0]_vars

\* A learn call has been queued behind a run that is past its first await.
C39_Witness ==
    /\ ret.op = "learn"
    /\ ret.content = "Queued for learning"
    /\ learner.learningQueue # <<>>
    /\ \E r \in DOMAIN learner.runs : learner.runs[r].at > 1

\* The topics that have been queued: the last learn call returned the
\* placeholder for its topic.
Queued(topic) ==
    /\ ret.op = "learn"
    /\ ret.content = "Queued for learning"
    /\ ret.topic = topic

\* C40: every topic queued while the engine was busy is eventually learned,
\* in FIFO order, provided each learn run in progress eventually finishes,
\* by returning or by throwing; once all runs have finished the queue is
\* empty and isLearning is false.
C40_QueuedTopicsLearned ==
    /\ \A topic \in LearnTopics :
          Queued(topic) ~> (\E k \in 1..Len(learner.started) : learner.started[k] = topic)
    /\ [](learner.runs = <<>> => (learner.learningQueue = <<>> /\ ~learner.isLearning))

====
